---- MODULE Spec2Model ----
(***************************************************************************)
(* The pipeline controller of reduce_data.py: the files / obs / caldbs     *)
(* tables, the selection queries, the main loop that launches worker       *)
(* processes, and the workers (combine, correct, clean, calibrate, load).  *)
(*                                                                         *)
(* Granularity: one step per database transaction (each "with              *)
(* db.transaction()" block commits atomically); the code a process runs    *)
(* between two transactions touches only its own locals and is folded     *)
(* into the step of the transaction that follows it.                       *)
(*                                                                         *)
(* Source names are sequences of characters, so that the '_R' suffix test  *)
(* and the SQL LIKE match are computed and not assumed.  Times (MJD) are   *)
(* counted in whole hours.                                                 *)
(***************************************************************************)
EXTENDS Integers, Sequences, FiniteSets, TLC

\* ------------------------------------------------------------------ bounds

\* Largest value of the -P/--num-procs argument that is explored.
MaxProc == 2
\* Number of coordinator processes the two-coordinator specification runs.
NumCoord == 2
\* The hour (MJD, in hours) at which the daemon starts: more than 7 days
\* after every observation of the stores.
StartHour == 200
\* Number of raw data directories that get_rawdata_dirs lists.
MaxDirs == 2

\* --------------------------------------------------------------- constants

\* TWOHRS_IN_DAYS and the 7 days of can_calibrate, in hours.
TWOHRS_IN_DAYS == 2
GraceHours == 168

None == "None"

Min(a, b) == IF a < b THEN a ELSE b
Max(a, b) == IF a > b THEN a ELSE b
Range(s) == { s[i] : i \in DOMAIN s }

\* All the orders in which the rows of a result set may come back: the
\* queries have no ORDER BY.
RECURSIVE Orders(_)
Orders(S) ==
    IF S = {} THEN { <<>> }
    ELSE UNION { { <<x>> \o t : t \in Orders(S \ {x}) } : x \in S }

\* Python's seq[:n], for any integer n.
PySlice(s, n) ==
    IF n >= 0 THEN SubSeq(s, 1, Min(n, Len(s)))
    ELSE SubSeq(s, 1, Max(Len(s) + n, 0))

\* name.endswith('_R')
EndsWithR(name) ==
    /\ Len(name) >= 2
    /\ name[Len(name) - 1] = "_"
    /\ name[Len(name)] = "R"

\* if name.endswith('_R'): name = name[:-2]
\* (utils.get_prefname is taken to return the names of the model unchanged:
\* none of them is an alias.)
StripR(name) == IF EndsWithR(name) THEN PySlice(name, -2) ELSE name

\* SQL LIKE: '%' matches any run of characters, '_' any one character.
RECURSIVE Like(_, _)
Like(s, p) ==
    IF p = <<>> THEN s = <<>>
    ELSE IF Head(p) = "%"
         THEN Like(s, Tail(p)) \/ (s # <<>> /\ Like(Tail(s), p))
         ELSE /\ s # <<>>
              /\ (Head(p) = "_" \/ Head(p) = Head(s))
              /\ Like(Tail(s), Tail(p))

SrcA == <<"A">>
SrcAR == <<"A", "_", "R">>
SrcB == <<"B">>
SrcBR == <<"B", "_", "R">>

\* The observations load_groups has entered: the source names, the start
\* times (hours), and the obstype, which follows the name.
ObsNames == << SrcA, SrcAR, SrcAR >>
ObsStart == << 2, 0, 1 >>
ObsType(name) == IF EndsWithR(name) THEN "cal" ELSE "pulsar"

\* The values of -n/--prioritize that are explored: absent (None), or a list
\* of LIKE patterns: one that lists the calibrator scans only, and one that
\* lists every source of the stores.
PatR == <<"%", "R">>
PatA == <<"A", "%">>
PriorityNone == [ given |-> FALSE, patterns |-> <<>> ]
PriorityR == [ given |-> TRUE, patterns |-> <<PatR>> ]
PriorityBA == [ given |-> TRUE, patterns |-> <<SrcB, PatA>> ]
PriorityAny == [ given |-> TRUE, patterns |-> << <<"%">> >> ]
Priorities == { PriorityNone, PriorityR, PriorityBA }

\* The actions table (ACTIONS in the source; the word is reserved in TLA+).
Actions ==
    [ combine   |-> [ target_stages |-> <<"grouped">>, qcpassed_only |-> FALSE,
                      withlock |-> FALSE, actfunc |-> "load_combined_file" ],
      correct   |-> [ target_stages |-> <<"combined">>, qcpassed_only |-> FALSE,
                      withlock |-> FALSE, actfunc |-> "load_corrected_file" ],
      clean     |-> [ target_stages |-> <<"corrected">>, qcpassed_only |-> FALSE,
                      withlock |-> FALSE, actfunc |-> "load_cleaned_file" ],
      calibrate |-> [ target_stages |-> <<"cleaned">>, qcpassed_only |-> TRUE,
                      withlock |-> TRUE, actfunc |-> "load_calibrated_file" ],
      load      |-> [ target_stages |-> <<>>, qcpassed_only |-> TRUE,
                      withlock |-> FALSE, actfunc |-> "load_to_toaster" ] ]

\* CATEGORIES with 'combine' served first.
CATEGORIES_Reordered == << "combine", "load", "calibrate", "clean", "correct" >>

\* The order in which main() serves the categories.
CATEGORIES == << "load", "calibrate", "clean", "correct", "combine" >>

STAGES == << "grouped", "combined", "corrected", "cleaned", "calibrated" >>

Coords == 1 .. NumCoord

NoLock == << 0, <<>> >>

VARIABLES
    files,        \* the files table: file_id -> row
    obs,          \* the obs table: obs_id -> row
    caldbs,       \* the caldbs table, a sequence of rows
    directories,  \* the directories table: dir_id -> row
    now,          \* the clock (rs.utils.mjdnow), in hours
    numproc,      \* args.numproc
    priority,     \* args.priority
    active,       \* the coordinators (main processes) that run
    sched,        \* per coordinator: where main() is, and its locals
    inprogress,   \* per coordinator: the list of launched processes
    CALDB_LOCKS,  \* per coordinator: the names that have a lock
    held,         \* the locks that are acquired
    call          \* the last direct call of a function, and what it returned

vars == << files, obs, caldbs, directories, now, numproc, priority, active,
           sched, inprogress, CALDB_LOCKS, held, call >>

dbvars == << files, obs, caldbs >>
argvars == << numproc, priority, active >>

\* ------------------------------------------------------------ the queries

SourceName(f) == obs[files[f].obs_id].sourcename

\* get_toload: every row with status 'toload'.
get_toload == { f \in DOMAIN files : files[f].status = "toload" }

\* WhereClause without "whereclause &= db.files.c.qcpassed==True".
WhereClause_NoQC(f, action, priorities) ==
    LET act == Actions[action] IN
    /\ files[f].status = "new"
    /\ files[f].stage \in Range(act.target_stages)
    /\ (priorities.given =>
          \E k \in DOMAIN priorities.patterns :
              Like(SourceName(f), priorities.patterns[k]))

\* WhereClause without the priorities.
WhereClause_NoPriority(f, action, priorities) ==
    LET act == Actions[action] IN
    /\ files[f].status = "new"
    /\ files[f].stage \in Range(act.target_stages)
    /\ (act.qcpassed_only => files[f].qcpassed = "true")

\* get_todo's where clause, built from the action's entry.
WhereClause(f, action, priorities) ==
    LET act == Actions[action] IN
    /\ files[f].status = "new"
    /\ files[f].stage \in Range(act.target_stages)
    /\ (act.qcpassed_only => files[f].qcpassed = "true")
    /\ (priorities.given =>
          \E k \in DOMAIN priorities.patterns :
              Like(SourceName(f), priorities.patterns[k]))

get_todo(action, priorities) ==
    { f \in DOMAIN files : WhereClause(f, action, priorities) }

\* The row handed to a worker: a copy of the joined row as selected.
Snapshot(f) ==
    [ file_id |-> f,
      obs_id |-> files[f].obs_id,
      status |-> files[f].status,
      stage |-> files[f].stage,
      qcpassed |-> files[f].qcpassed,
      sourcename |-> SourceName(f),
      obstype |-> obs[files[f].obs_id].obstype ]

\* get_caldb_lock without the removal of '_R'.
get_caldb_lock_KeepR(c, sourcename) == << c, sourcename >>

\* get_caldb_lock with one lock for every source.
get_caldb_lock_Global(c, sourcename) == << c, <<"caldb">> >>

\* get_caldb_lock: the lock of the canonical name, for coordinator c.
get_caldb_lock(c, sourcename) == << c, StripR(sourcename) >>

\* -------------------------------------------------------- the initial store

\* The directory a stage function writes its output file to: the listing
\* and the combined file go to working directories under output_location,
\* the corrected and the cleaned file to the archive directory of the
\* observation, and the calibrated file beside the cleaned file.
OutDir(stage) == IF stage \in { "grouped", "combined" } THEN "work" ELSE "archive"

NewFile(obs_id, stage, status, parent, cal_file_id, note) ==
    [ obs_id |-> obs_id, stage |-> stage, status |-> status,
      qcpassed |-> "null", parent_file_id |-> parent,
      cal_file_id |-> cal_file_id, note |-> note, added |-> now,
      filepath |-> OutDir(stage) ]

\* What earlier runs of the daemon left for an observation: the chain of its
\* files up to a head row.
\*   fresh:    the 'grouped' row load_groups inserted;
\*   unclean:  a 'corrected' row that waits for cleaning;
\*   reviewed: a 'cleaned' row that passed quality control;
\*   givenup:  a pulsar's 'cleaned' row given up for calibration ('toload');
\*   complete: a calibrator's 'calibrated' row ('done'), with which the
\*             calibrator database of its source was built.
Heads ==
    [ fresh    |-> [ stage |-> 1, status |-> "new", note |-> None ],
      unclean  |-> [ stage |-> 3, status |-> "new", note |-> None ],
      reviewed |-> [ stage |-> 4, status |-> "new", note |-> None ],
      givenup  |-> [ stage |-> 4, status |-> "toload", note |-> "File cannot be calibrated" ],
      complete |-> [ stage |-> 5, status |-> "done", note |-> None ] ]

\* The stores the daemon is started on: the head of each observation.
Stores ==
    { << "fresh", "fresh" >>,
      << "givenup", "fresh" >>,
      << "reviewed", "reviewed", "complete" >> }

Chain(k, head, base) ==
    [ j \in 1 .. head.stage |->
        [ NewFile(k, STAGES[j], IF j < head.stage THEN "processed" ELSE head.status,
                  IF j = 1 THEN 0 ELSE base + j - 1, 0,
                  IF j < head.stage THEN None ELSE head.note)
          EXCEPT !.qcpassed = IF STAGES[j] = "cleaned" THEN "true" ELSE "null",
                 !.added = ObsStart[k] + j,
                 !.filepath = IF head.stage >= 3 THEN "archive" ELSE OutDir(STAGES[j]) ] ]

RECURSIVE BuildFiles(_, _)
BuildFiles(store, k) ==
    IF k = 0 THEN <<>>
    ELSE LET prev == BuildFiles(store, k - 1)
         IN  prev \o Chain(k, Heads[store[k]], Len(prev))

InitObs(store) ==
    [ k \in DOMAIN store |->
        [ sourcename |-> ObsNames[k], obstype |-> ObsType(ObsNames[k]),
          start_mjd |-> ObsStart[k],
          rcvr |-> IF Heads[store[k]].stage >= 3 THEN "L" ELSE None ] ]

\* The directories rows of the store: load_groups has processed the
\* directory of each observation.
InitDirectories(store) ==
    [ k \in DOMAIN store |-> [ path |-> k, status |-> "processed" ] ]

\* The caldbs rows that the complete calibrator scans of the store built.
InitCaldbs(store) ==
    IF \E k \in DOMAIN store : store[k] = "complete"
    THEN << [ sourcename |-> SrcA, numentries |-> 0, status |-> "ready",
              last_modified |-> StartHour - 1 ] >>
    ELSE <<>>

\* The top of the main loop: nfree = args.numproc - len(inprogress).
\* Besides main's locals the record keeps, for the iteration under way:
\* free0, the free slots at its start; started, the number of launch_task
\* calls; served, the categories a task was launched for; missed, the
\* categories whose selection returned more rows than were taken.
LoopTop(n, inprog) ==
    [ pc |-> IF n - Len(inprog) # 0 THEN "select" ELSE "sleep",
      cat |-> 1,
      nfree |-> n - Len(inprog),
      rows |-> <<>>,
      nnew |-> 0,
      nsubmit |-> 0,
      free0 |-> n - Len(inprog),
      started |-> 0,
      served |-> {},
      missed |-> {} ]

Off == [ LoopTop(0, <<>>) EXCEPT !.pc = "off" ]

\* No function has been called directly.
\* (again: the call repeats the call before it, with the same arguments;
\* tool: what became of the aggregation tool in update_caldb; reattempted:
\* update_caldb got to its call of reattempt_calibration.)
NoCall ==
    [ fn |-> "none", obs_id |-> 0, name |-> <<>>, force |-> FALSE,
      ret |-> "none", again |-> FALSE, tool |-> "none", reattempted |-> FALSE,
      action |-> "none" ]

\* main's first statement is
\*     utils.print_info("Prioritizing %s" % ", ".join(args.priority), 0)
\* which raises TypeError when -n/--prioritize is absent (args.priority is
\* None): main re-raises it and the daemon ends before its loop.
Crashed == [ LoopTop(0, <<>>) EXCEPT !.pc = "crashed" ]

InitWith(running, stores) ==
    /\ now = StartHour
    /\ numproc \in 0 .. MaxProc
    /\ priority \in Priorities
    /\ active = running
    /\ \E store \in stores :
          /\ obs = InitObs(store)
          /\ files = BuildFiles(store, Len(store))
          /\ caldbs = InitCaldbs(store)
          /\ directories = InitDirectories(store)
    /\ sched = [ c \in Coords |->
                    IF c \notin running THEN Off
                    ELSE IF priority.given THEN LoopTop(numproc, <<>>)
                    ELSE Crashed ]
    /\ inprogress = [ c \in Coords |-> <<>> ]
    /\ CALDB_LOCKS = [ c \in Coords |-> {} ]
    /\ held = {}
    /\ call = NoCall

Init == InitWith({1}, Stores)

\* ------------------------------------------------------------ main's loop

\* AfterCategory without "nfree -= nnew".
AfterCategory_KeepFree(s) ==
    [ s EXCEPT !.nsubmit = s.nsubmit + s.nnew,
               !.rows = <<>>,
               !.nnew = 0,
               !.cat = IF s.cat = Len(CATEGORIES) THEN 1 ELSE s.cat + 1,
               !.pc = IF s.cat = Len(CATEGORIES) THEN "sleep" ELSE "select" ]

\* The end of one category's block: nfree -= nnew, then the next category,
\* or the sleep at the end of the iteration.
AfterCategory(s) ==
    [ s EXCEPT !.nfree = s.nfree - s.nnew,
               !.nsubmit = s.nsubmit + s.nnew,
               !.rows = <<>>,
               !.nnew = 0,
               !.cat = IF s.cat = Len(CATEGORIES) THEN 1 ELSE s.cat + 1,
               !.pc = IF s.cat = Len(CATEGORIES) THEN "sleep" ELSE "select" ]

\* get_toload(db)[:nfree], or get_todo(db, action, priorities)[:nfree].
Select(c) ==
    /\ c \in active
    /\ sched[c].pc = "select"
    /\ LET s == sched[c]
           found == IF CATEGORIES[s.cat] = "load" THEN get_toload
                    ELSE get_todo(CATEGORIES[s.cat], priority)
       IN  \E order \in Orders(found) :
             LET rows == PySlice([ j \in DOMAIN order |-> Snapshot(order[j]) ], s.nfree)
                 t == [ s EXCEPT !.missed = IF Len(rows) < Len(order)
                                             THEN @ \cup { CATEGORIES[s.cat] } ELSE @,
                                 !.rows = rows,
                                 !.nnew = Len(rows),
                                 !.pc = "launch" ]
             IN  sched' = [ sched EXCEPT ![c] = IF rows = <<>> THEN AfterCategory(t) ELSE t ]
    /\ UNCHANGED << dbvars, now, argvars, directories, call, inprogress, CALDB_LOCKS, held >>

\* NewProc with the worker reading the row as it stands after launch_task's
\* commit, not the copy made at selection.
NewProc_LiveRow(action, row, lock) ==
    [ action |-> action, row |-> [ row EXCEPT !.status = "submitted" ], lock |-> lock,
      pc |-> "start", exitcode |-> "None", exc |-> "none", caldb |-> 0 ]

NewProc(action, row, lock) ==
    [ action |-> action, row |-> row, lock |-> lock,
      pc |-> "start", exitcode |-> "None", exc |-> "none", caldb |-> 0 ]

\* launch_task without the update that sets status 'submitted'.
launch_task_NoSubmit(c, action, row) ==
    LET lock == IF Actions[action].withlock
                THEN get_caldb_lock(c, row.sourcename) ELSE NoLock
    IN  /\ files' = files
        /\ CALDB_LOCKS' = IF Actions[action].withlock
                          THEN [ CALDB_LOCKS EXCEPT ![c] = @ \cup { lock[2] } ]
                          ELSE CALDB_LOCKS
        /\ inprogress' = [ inprogress EXCEPT ![c] = Append(@, NewProc(action, row, lock)) ]

\* launch_task: status 'submitted', the lock of the source when the action
\* takes one, and the process started and appended to inprogress.
launch_task(c, action, row) ==
    LET lock == IF Actions[action].withlock
                THEN get_caldb_lock(c, row.sourcename) ELSE NoLock
    IN  /\ files' = [ files EXCEPT ![row.file_id].status = "submitted" ]
        /\ CALDB_LOCKS' = IF Actions[action].withlock
                          THEN [ CALDB_LOCKS EXCEPT ![c] = @ \cup { lock[2] } ]
                          ELSE CALDB_LOCKS
        /\ inprogress' = [ inprogress EXCEPT ![c] = Append(@, NewProc(action, row, lock)) ]

Launch(c) ==
    /\ c \in active
    /\ sched[c].pc = "launch"
    /\ LET s == sched[c]
           row == Head(s.rows)
           t == [ s EXCEPT !.rows = Tail(s.rows),
                           !.started = @ + 1,
                           !.served = @ \cup { CATEGORIES[s.cat] } ]
       IN  /\ launch_task(c, CATEGORIES[s.cat], row)
           /\ sched' = [ sched EXCEPT ![c] = IF t.rows = <<>> THEN AfterCategory(t) ELSE t ]
    /\ UNCHANGED << obs, caldbs, now, argvars, directories, call, held >>

\* The sleep, the check for completed tasks, and the top of the next
\* iteration.
\* The completion test passing for the workers that returned only.
IsDone_ZeroOnly(p) == p.pc = "dead" /\ p.exitcode = "zero"

\* The completion test passing for every process, ended or not.
IsDone_Timeout(p) == TRUE

\* "not proc.is_alive() and proc.exitcode is not None".
IsDone(p) == p.pc = "dead" /\ p.exitcode # "None"

Reap(c) ==
    /\ c \in active
    /\ sched[c].pc = "sleep"
    /\ LET left == SelectSeq(inprogress[c], LAMBDA p : ~IsDone(p))
       IN  /\ inprogress' = [ inprogress EXCEPT ![c] = left ]
           /\ sched' = [ sched EXCEPT ![c] = LoopTop(numproc, left) ]
    /\ UNCHANGED << dbvars, now, argvars, directories, call, CALDB_LOCKS, held >>

\* --------------------------------------------------------------- workers

Proc(c, i) == inprogress[c][i]
SetProc(c, i, p) == inprogress' = [ inprogress EXCEPT ![c][i] = p ]
\* The worker's function returns (exit code 0) or raises (exit code 1), and
\* the process ends: is_alive() turns false and exitcode is set.
Exited(p, code) == [ p EXCEPT !.pc = "dead", !.exitcode = code, !.exc = "none" ]

\* The kinds of exception a transform raises: one whose first argument is a
\* string (the CoastGuardErrors, ValueError, ...), and an IOError/OSError
\* (shutil.move, os.path.getsize, ...), whose first argument is the errno.
ExcKinds == { "CoastGuardError", "IOError" }

\* exc.args = (exc.args[0] + "\n(File ID: %d)" % file_id,) is evaluated by
\* every handler but load_combined_file's; with an integer first argument
\* it raises TypeError inside the handler.
HandlerSurvives(action, kind) == action = "combine" \/ kind # "IOError"

\* The (status, stage, qcpassed) test each worker makes on its row copy.
Precondition(action, row) ==
    CASE action = "combine" -> row.status = "new"
      [] action = "correct" -> row.status = "new" /\ row.stage = "combined"
      [] action = "clean" -> row.status = "new" /\ row.stage = "corrected"
      [] action = "calibrate" ->
            row.status = "new" /\ row.stage = "cleaned" /\ row.qcpassed = "true"

\* OutStage with load_cleaned_file writing the stage after the next.
OutStage_Skip(action) ==
    CASE action = "combine" -> "combined"
      [] action = "correct" -> "corrected"
      [] action = "clean" -> "calibrated"
      [] action = "calibrate" -> "calibrated"

\* The stage of the row a worker inserts.
OutStage(action) ==
    CASE action = "combine" -> "combined"
      [] action = "correct" -> "corrected"
      [] action = "clean" -> "cleaned"
      [] action = "calibrate" -> "calibrated"

FailNote(action) ==
    CASE action = "combine" -> "Combining failed!"
      [] action = "correct" -> "Correction failed!"
      [] action = "clean" -> "Cleaning failed!"
      [] action = "calibrate" -> "Calibration failed!"

\* "Mark as running", then the test of the row copy: a failed test returns
\* the error (combine, correct, clean) or raises it (calibrate).
MarkRunning(c, i) ==
    /\ c \in active /\ i \in DOMAIN inprogress[c]
    /\ LET p == Proc(c, i) IN
       /\ p.pc = "start"
       /\ p.action # "load"
       /\ files' = [ files EXCEPT ![p.row.file_id].status = "running" ]
       /\ SetProc(c, i,
            IF Precondition(p.action, p.row) THEN [ p EXCEPT !.pc = "work" ]
            ELSE Exited(p, IF p.action = "calibrate" THEN "nonzero" ELSE "zero"))
    /\ UNCHANGED << obs, caldbs, now, argvars, directories, call, sched, CALDB_LOCKS, held >>

\* move_file for every row get_files returns for the observation: filepath
\* and filename are rewritten unless the file is at its destination.
MoveObsFiles(fs, obs_id) ==
    [ f \in DOMAIN fs |->
        IF fs[f].obs_id = obs_id THEN [ fs[f] EXCEPT !.filepath = "archive" ]
        ELSE fs[f] ]

\* What follows the transaction of the success branch: the moves, in
\* load_corrected_file only.
Archived(fs, child) ==
    IF child.stage = "corrected" THEN MoveObsFiles(fs, child.obs_id) ELSE fs

\* CommitSuccess without the update of the parent.
CommitSuccess_InsertOnly(parent, child) == files' = Append(files, child)

\* The success branch: the new row and the parent's 'processed' in one
\* transaction; load_corrected_file then moves every file of the
\* observation to the archive directory (move_file).
CommitSuccess(parent, child) ==
    files' = Archived(Append([ files EXCEPT ![parent].status = "processed" ], child),
                      child)

\* The receivers correct_header may report.
Receivers == { "L" }

\* load_combined_file, load_corrected_file, load_cleaned_file: the transform
\* succeeds.
StageOK(c, i) ==
    /\ c \in active /\ i \in DOMAIN inprogress[c]
    /\ LET p == Proc(c, i) IN
       /\ p.pc = "work"
       /\ p.action \in { "combine", "correct", "clean" }
       /\ CommitSuccess(p.row.file_id,
                        NewFile(p.row.obs_id, OutStage(p.action), "new",
                                p.row.file_id, 0, None))
       /\ IF p.action = "correct"
          THEN \E r \in Receivers : obs' = [ obs EXCEPT ![p.row.obs_id].rcvr = r ]
          ELSE obs' = obs
       /\ SetProc(c, i, Exited(p, "zero"))
    /\ UNCHANGED << caldbs, now, argvars, directories, call, sched, CALDB_LOCKS, held >>

\* The except branch of the three: status 'failed' and the note, then raise.
FailRow(action, f, kind) ==
    IF HandlerSurvives(action, kind)
    THEN files' = [ files EXCEPT ![f].status = "failed", ![f].note = FailNote(action) ]
    ELSE files' = files

StageFail(c, i) ==
    /\ c \in active /\ i \in DOMAIN inprogress[c]
    /\ LET p == Proc(c, i) IN
       /\ p.pc = "work"
       /\ p.action \in { "combine", "correct", "clean" }
       /\ \E kind \in ExcKinds :
            /\ FailRow(p.action, p.row.file_id, kind)
            /\ SetProc(c, i, Exited(p, "nonzero"))
    /\ UNCHANGED << obs, caldbs, now, argvars, directories, call, sched, CALDB_LOCKS, held >>

\* load_to_toaster.
LoadOK(c, i) ==
    /\ c \in active /\ i \in DOMAIN inprogress[c]
    /\ LET p == Proc(c, i) IN
       /\ p.pc = "start"
       /\ p.action = "load"
       /\ files' = [ files EXCEPT ![p.row.file_id].status = "done",
                                  ![p.row.file_id].note = "Loaded into TOASTER DB" ]
       /\ SetProc(c, i, Exited(p, "zero"))
    /\ UNCHANGED << obs, caldbs, now, argvars, directories, call, sched, CALDB_LOCKS, held >>

LoadFail(c, i) ==
    /\ c \in active /\ i \in DOMAIN inprogress[c]
    /\ LET p == Proc(c, i) IN
       /\ p.pc = "start"
       /\ p.action = "load"
       /\ \E kind \in ExcKinds :
            /\ IF HandlerSurvives(p.action, kind)
               THEN files' = [ files EXCEPT
                                 ![p.row.file_id].status = "failed",
                                 ![p.row.file_id].note = "Could not be loaded into TOASTER." ]
               ELSE files' = files
            /\ SetProc(c, i, Exited(p, "nonzero"))
    /\ UNCHANGED << obs, caldbs, now, argvars, directories, call, sched, CALDB_LOCKS, held >>

\* ------------------------------------------------------------- calibration

\* can_calibrate with the grace period reaching the 7th day itself.
can_calibrate_GraceIncl(obs_id) ==
    LET obsrow == obs[obs_id]
        candidates ==
            { o \in DOMAIN obs :
                /\ obs[o].obstype = "cal"
                /\ obs[o].sourcename = obsrow.sourcename \o <<"_", "R">>
                /\ (obs[o].rcvr = obsrow.rcvr \/ obs[o].rcvr = None)
                /\ obs[o].start_mjd >= obsrow.start_mjd - TWOHRS_IN_DAYS
                /\ obs[o].start_mjd <= obsrow.start_mjd + TWOHRS_IN_DAYS }
        rows(o) == { f \in DOMAIN files : files[f].obs_id = o }
    IN  \/ now - obsrow.start_mjd <= GraceHours
        \/ \E o \in candidates :
              /\ rows(o) # {}
              /\ \A f \in rows(o) : files[f].qcpassed # "false"

\* can_calibrate with the window's bounds left out.
can_calibrate_OpenWindow(obs_id) ==
    LET obsrow == obs[obs_id]
        candidates ==
            { o \in DOMAIN obs :
                /\ obs[o].obstype = "cal"
                /\ obs[o].sourcename = obsrow.sourcename \o <<"_", "R">>
                /\ (obs[o].rcvr = obsrow.rcvr \/ obs[o].rcvr = None)
                /\ obs[o].start_mjd > obsrow.start_mjd - TWOHRS_IN_DAYS
                /\ obs[o].start_mjd < obsrow.start_mjd + TWOHRS_IN_DAYS }
        rows(o) == { f \in DOMAIN files : files[f].obs_id = o }
    IN  \/ now - obsrow.start_mjd < GraceHours
        \/ \E o \in candidates :
              /\ rows(o) # {}
              /\ \A f \in rows(o) : files[f].qcpassed # "false"

\* can_calibrate, for a pulsar observation (the caller has tested obstype).
can_calibrate(obs_id) ==
    LET obsrow == obs[obs_id]
        candidates ==
            { o \in DOMAIN obs :
                /\ obs[o].obstype = "cal"
                /\ obs[o].sourcename = obsrow.sourcename \o <<"_", "R">>
                /\ (obs[o].rcvr = obsrow.rcvr \/ obs[o].rcvr = None)
                /\ obs[o].start_mjd >= obsrow.start_mjd - TWOHRS_IN_DAYS
                /\ obs[o].start_mjd <= obsrow.start_mjd + TWOHRS_IN_DAYS }
        rows(o) == { f \in DOMAIN files : files[f].obs_id = o }
    IN  \/ now - obsrow.start_mjd < GraceHours
        \/ \E o \in candidates :
              /\ rows(o) # {}
              /\ \A f \in rows(o) : files[f].qcpassed # "false"

\* get_caldb: the ids of the caldbs rows of the canonical name.
get_caldb(sourcename) ==
    { k \in DOMAIN caldbs : caldbs[k].sourcename = StripR(sourcename) }

\* reattempt_calibration without the test of the status.
reattempt_calibration_AnyStatus(sourcename) ==
    [ f \in DOMAIN files |->
        IF /\ files[f].stage = "cleaned"
           /\ files[f].qcpassed = "true"
           /\ SourceName(f) = StripR(sourcename)
        THEN [ files[f] EXCEPT !.status = "new", !.note = "Reattempting calibration" ]
        ELSE files[f] ]

\* reattempt_calibration without the test of the stage.
reattempt_calibration_AnyStage(sourcename) ==
    [ f \in DOMAIN files |->
        IF /\ files[f].status = "calfail"
           /\ files[f].qcpassed = "true"
           /\ SourceName(f) = StripR(sourcename)
        THEN [ files[f] EXCEPT !.status = "new", !.note = "Reattempting calibration" ]
        ELSE files[f] ]

\* reattempt_calibration without the test of qcpassed.
reattempt_calibration_AnyQC(sourcename) ==
    [ f \in DOMAIN files |->
        IF /\ files[f].status = "calfail"
           /\ files[f].stage = "cleaned"
           /\ SourceName(f) = StripR(sourcename)
        THEN [ files[f] EXCEPT !.status = "new", !.note = "Reattempting calibration" ]
        ELSE files[f] ]

\* reattempt_calibration's update of the files table.
reattempt_calibration(sourcename) ==
    [ f \in DOMAIN files |->
        IF /\ files[f].status = "calfail"
           /\ files[f].stage = "cleaned"
           /\ files[f].qcpassed = "true"
           /\ SourceName(f) = StripR(sourcename)
        THEN [ files[f] EXCEPT !.status = "new", !.note = "Reattempting calibration" ]
        ELSE files[f] ]

\* Release with no finally clause: the lock is released when the guarded
\* call returns only.
Release_OnReturn(lock, raised) == IF raised THEN held ELSE held \ { lock }

\* "finally: lock.release()": the locks held after the guarded call
\* (calibrate.calibrate, update_caldb) returned or raised.
Release(lock, raised) == held \ { lock }

\* Acquire with a lock.acquire() that does not wait for the lock.
Acquire_NoWait(c, i) ==
    /\ c \in active /\ i \in DOMAIN inprogress[c]
    /\ LET p == Proc(c, i) IN
       /\ p.pc = "wantlock"
       /\ held' = held \cup { p.lock }
       /\ SetProc(c, i, [ p EXCEPT !.pc = "locked" ])
    /\ UNCHANGED << dbvars, now, argvars, directories, call, sched, CALDB_LOCKS >>

\* lock.acquire(): blocks until the lock is free.
Acquire(c, i) ==
    /\ c \in active /\ i \in DOMAIN inprogress[c]
    /\ LET p == Proc(c, i) IN
       /\ p.pc = "wantlock"
       /\ p.lock \notin held
       /\ held' = held \cup { p.lock }
       /\ SetProc(c, i, [ p EXCEPT !.pc = "locked" ])
    /\ UNCHANGED << dbvars, now, argvars, directories, call, sched, CALDB_LOCKS >>

\* A calibrator scan: pam, the plot and the output file succeed; the new
\* row (status 'done') and the parent's 'processed' are committed, and the
\* worker goes on to update the calibrator database.
CalScanOK(c, i) ==
    /\ c \in active /\ i \in DOMAIN inprogress[c]
    /\ LET p == Proc(c, i) IN
       /\ p.pc = "work"
       /\ p.action = "calibrate"
       /\ p.row.obstype = "cal"
       /\ CommitSuccess(p.row.file_id,
                        NewFile(p.row.obs_id, OutStage(p.action), "done",
                                p.row.file_id, 0, None))
       /\ SetProc(c, i, [ p EXCEPT !.pc = "wantlock" ])
    /\ UNCHANGED << obs, caldbs, now, argvars, directories, call, sched, CALDB_LOCKS, held >>

\* A failure in the try block of load_calibrated_file, outside the locked
\* call: the handler runs next.
CalibrateRaise(c, i) ==
    /\ c \in active /\ i \in DOMAIN inprogress[c]
    /\ LET p == Proc(c, i) IN
       /\ p.pc \in { "work", "calibrated" }
       /\ p.action = "calibrate"
       /\ p.pc = "work" => p.row.obstype = "cal"
       /\ \E kind \in ExcKinds : SetProc(c, i, [ p EXCEPT !.pc = "handler", !.exc = kind ])
    /\ UNCHANGED << dbvars, now, argvars, directories, call, sched, CALDB_LOCKS, held >>

\* A pulsar scan: get_caldb; without a row DataReductionFailed is raised.
\* (More than one row raises DatabaseError, a CoastGuardError too.)
PulsarGetCaldb(c, i) ==
    /\ c \in active /\ i \in DOMAIN inprogress[c]
    /\ LET p == Proc(c, i) IN
       /\ p.pc = "work"
       /\ p.action = "calibrate"
       /\ p.row.obstype # "cal"
       /\ SetProc(c, i,
            IF Cardinality(get_caldb(p.row.sourcename)) = 1
            THEN [ p EXCEPT !.pc = "wantlock" ]
            ELSE [ p EXCEPT !.pc = "handler", !.exc = "CoastGuardError" ])
    /\ UNCHANGED << dbvars, now, argvars, directories, call, sched, CALDB_LOCKS, held >>

\* The calibrated calibrator files calibrate.calibrate may name as the one
\* it used, 0 standing for None.
CalFiles(sourcename) ==
    { f \in DOMAIN files :
        /\ files[f].stage = "calibrated"
        /\ obs[files[f].obs_id].obstype = "cal"
        /\ StripR(SourceName(f)) = StripR(sourcename) }

\* calibrate.calibrate returns, and the finally clause releases the lock.
PulsarCalibrated(c, i) ==
    /\ c \in active /\ i \in DOMAIN inprogress[c]
    /\ LET p == Proc(c, i) IN
       /\ p.pc = "locked"
       /\ p.row.obstype # "cal"
       /\ held' = Release(p.lock, FALSE)
       /\ \E calfn \in CalFiles(p.row.sourcename) \cup { 0 } :
            SetProc(c, i, [ p EXCEPT !.pc = "calibrated", !.caldb = calfn ])
    /\ UNCHANGED << dbvars, now, argvars, directories, call, sched, CALDB_LOCKS >>

\* calibrate.calibrate raises, and the finally clause releases the lock.
PulsarCalibrateRaise(c, i) ==
    /\ c \in active /\ i \in DOMAIN inprogress[c]
    /\ LET p == Proc(c, i) IN
       /\ p.pc = "locked"
       /\ p.row.obstype # "cal"
       /\ held' = Release(p.lock, TRUE)
       /\ \E kind \in ExcKinds : SetProc(c, i, [ p EXCEPT !.pc = "handler", !.exc = kind ])
    /\ UNCHANGED << dbvars, now, argvars, directories, call, sched, CALDB_LOCKS >>

\* The plots and the output file succeed: the new row, with cal_file_id
\* when calibrate.calibrate named a file, and the parent's 'processed'.
PulsarOK(c, i) ==
    /\ c \in active /\ i \in DOMAIN inprogress[c]
    /\ LET p == Proc(c, i) IN
       /\ p.pc = "calibrated"
       /\ CommitSuccess(p.row.file_id,
                        NewFile(p.row.obs_id, OutStage(p.action), "new",
                                p.row.file_id, p.caldb, None))
       /\ SetProc(c, i, Exited(p, "zero"))
    /\ UNCHANGED << obs, caldbs, now, argvars, directories, call, sched, CALDB_LOCKS, held >>

\* The status the except branch of load_calibrated_file gives the row.
CalibrateFailStatus(row) ==
    IF row.obstype = "cal" THEN "failed"
    ELSE IF can_calibrate(row.obs_id) THEN "calfail"
    ELSE "toload"

CalibrateHandler(c, i) ==
    /\ c \in active /\ i \in DOMAIN inprogress[c]
    /\ LET p == Proc(c, i) IN
       /\ p.pc = "handler"
       /\ IF HandlerSurvives(p.action, p.exc)
          THEN files' = [ files EXCEPT
                 ![p.row.file_id].status = CalibrateFailStatus(p.row),
                 ![p.row.file_id].note =
                     IF CalibrateFailStatus(p.row) = "toload"
                     THEN "File cannot be calibrated" ELSE FailNote(p.action) ]
          ELSE files' = files
       /\ SetProc(c, i, Exited(p, "nonzero"))
    /\ UNCHANGED << obs, caldbs, now, argvars, directories, call, sched, CALDB_LOCKS, held >>

\* update_caldb, first part: get_caldb.  More than one row raises
\* DatabaseError; the finally clause of the caller releases the lock.
UpdateCaldbGet(c, i) ==
    /\ c \in active /\ i \in DOMAIN inprogress[c]
    /\ LET p == Proc(c, i)
           found == get_caldb(p.row.sourcename)
       IN
       /\ p.pc = "locked"
       /\ p.row.obstype = "cal"
       /\ IF Cardinality(found) > 1
          THEN /\ held' = Release(p.lock, TRUE)
               /\ SetProc(c, i, Exited(p, "nonzero"))
          ELSE /\ held' = held
               /\ SetProc(c, i, [ p EXCEPT !.pc = "caldb",
                                           !.caldb = IF found = {} THEN 0
                                                     ELSE CHOOSE k \in found : TRUE ])
    /\ UNCHANGED << dbvars, now, argvars, directories, call, sched, CALDB_LOCKS >>

\* The status a caldbs row gets when an insert names none (the table's
\* default).
CaldbDefaultStatus == "ready"

\* The rows update_caldb counts: status 'new', stage 'calibrated', obstype
\* 'cal', of any source.
CaldbEntries ==
    { f \in DOMAIN files :
        /\ files[f].status = "new"
        /\ files[f].stage = "calibrated"
        /\ obs[files[f].obs_id].obstype = "cal" }

\* lastupdated: datetime.datetime.min when there is no row yet.
CaldbLastUpdated(k) == IF k = 0 THEN -1 ELSE caldbs[k].last_modified

\* numnew: the counted rows added after lastupdated.
CaldbNumNew(k) ==
    Cardinality({ f \in CaldbEntries : files[f].added > CaldbLastUpdated(k) })

\* update_caldb's transaction for the caldbs row k (0: none yet) of name,
\* with the aggregation tool (pac) succeeding (ok) or failing when it runs.
\*   tool:   whether pac ran ("if numnew or force"), and how it ended;
\*   raised: in the failure branch the update of an existing row names the
\*           column 'last_modifed', which the table does not have: the
\*           statement is refused, the transaction (the 'updating' mark
\*           included) is rolled back and the error leaves update_caldb;
\*   caldbs: the table after the transaction.
CaldbTx(k, name, force, ok) ==
    LET n == Cardinality(CaldbEntries)
        runs == CaldbNumNew(k) > 0 \/ force
        failed == runs /\ ~ok
    IN  [ tool |-> IF ~runs THEN "none" ELSE IF ok THEN "ok" ELSE "failed",
          raised |-> failed /\ k # 0,
          caldbs |->
            IF k = 0
            THEN Append(caldbs,
                   [ sourcename |-> name, numentries |-> n,
                     status |-> IF failed THEN "failed" ELSE CaldbDefaultStatus,
                     last_modified |-> now ])
            ELSE IF failed THEN caldbs
            ELSE [ caldbs EXCEPT ![k].status = "ready",
                                 ![k].numentries = n,
                                 ![k].last_modified = now ] ]

\* update_caldb's transaction in a worker, which calls it with force=True.
UpdateCaldbTx(c, i) ==
    /\ c \in active /\ i \in DOMAIN inprogress[c]
    /\ LET p == Proc(c, i) IN
       /\ p.pc = "caldb"
       /\ \E ok \in BOOLEAN :
            LET r == CaldbTx(p.caldb, StripR(p.row.sourcename), TRUE, ok) IN
            /\ caldbs' = r.caldbs
            /\ IF r.raised
               THEN /\ held' = Release(p.lock, TRUE)
                    /\ SetProc(c, i, Exited(p, "nonzero"))
               ELSE /\ held' = held
                    /\ SetProc(c, i, [ p EXCEPT !.pc = "reattempt" ])
    /\ UNCHANGED << files, obs, now, argvars, directories, call, sched, CALDB_LOCKS >>

\* update_caldb's last statement, reattempt_calibration; then the finally
\* clause releases the lock and the worker returns.
UpdateCaldbReattempt(c, i) ==
    /\ c \in active /\ i \in DOMAIN inprogress[c]
    /\ LET p == Proc(c, i) IN
       /\ p.pc = "reattempt"
       /\ files' = reattempt_calibration(p.row.sourcename)
       /\ held' = Release(p.lock, FALSE)
       /\ SetProc(c, i, Exited(p, "zero"))
    /\ UNCHANGED << obs, caldbs, now, argvars, directories, call, sched, CALDB_LOCKS >>

\* ----------------------------------------------------------- environment

\* The review step sets qcpassed of a cleaned file that has no verdict yet.
QCReview(f) ==
    /\ f \in DOMAIN files
    /\ files[f].stage = "cleaned"
    /\ files[f].qcpassed = "null"
    /\ \E v \in { "true", "false" } : files' = [ files EXCEPT ![f].qcpassed = v ]
    /\ UNCHANGED << obs, caldbs, now, argvars, directories, call, sched, inprogress, CALDB_LOCKS, held >>

\* ------------------------------------------------------ the specifications

\* No observation has more than one file per stage.
MaxFiles == Len(STAGES) * Len(ObsNames)

Worker(c, i) ==
    \/ MarkRunning(c, i)
    \/ StageOK(c, i)
    \/ StageFail(c, i)
    \/ LoadOK(c, i)
    \/ LoadFail(c, i)
    \/ Acquire(c, i)
    \/ CalScanOK(c, i)
    \/ CalibrateRaise(c, i)
    \/ PulsarGetCaldb(c, i)
    \/ PulsarCalibrated(c, i)
    \/ PulsarCalibrateRaise(c, i)
    \/ PulsarOK(c, i)
    \/ CalibrateHandler(c, i)
    \/ UpdateCaldbGet(c, i)
    \/ UpdateCaldbTx(c, i)
    \/ UpdateCaldbReattempt(c, i)

Next ==
    \/ \E c \in Coords : Select(c) \/ Launch(c) \/ Reap(c)
    \/ \E c \in Coords : \E i \in 1 .. MaxProc : Worker(c, i)
    \/ \E f \in 1 .. MaxFiles : QCReview(f)

Spec == Init /\ [][Next]_vars

\* Two coordinators started on the same store, each with one slot.  The
\* store holds one pulsar observation and no calibrator scan, so no worker
\* gets to the steps that need a calibrator database or a calibrator row:
\* NextTwo is Next without the steps that are never enabled on this store.
StoresTwo == { << "unclean" >> }

InitTwo == InitWith({1, 2}, StoresTwo) /\ numproc = 1 /\ priority = PriorityBA

WorkerTwo(c, i) ==
    \/ MarkRunning(c, i)
    \/ StageOK(c, i)
    \/ StageFail(c, i)
    \/ LoadOK(c, i)
    \/ LoadFail(c, i)
    \/ PulsarGetCaldb(c, i)
    \/ CalibrateHandler(c, i)

NextTwo ==
    \/ \E c \in Coords : Select(c) \/ Launch(c) \/ Reap(c)
    \/ \E c \in Coords : \E i \in 1 .. MaxProc : WorkerTwo(c, i)
    \/ \E f \in 1 .. MaxFiles : QCReview(f)

SpecTwo == InitTwo /\ [][NextTwo]_vars

\* One coordinator with every slot, started with -n '%' on a store of two
\* sources: pulsar A and calibrator scans of A and of B, each with a
\* 'cleaned' row that passed quality control, and no calibrator database.
LockNames == << SrcA, SrcAR, SrcBR >>
StoreLocks == << "reviewed", "reviewed", "reviewed" >>

InitLocks ==
    /\ now = StartHour
    /\ numproc = MaxProc
    /\ priority = PriorityAny
    /\ active = {1}
    /\ obs = [ k \in DOMAIN StoreLocks |->
                 [ InitObs(StoreLocks)[k] EXCEPT !.sourcename = LockNames[k],
                                                 !.obstype = ObsType(LockNames[k]) ] ]
    /\ files = BuildFiles(StoreLocks, Len(StoreLocks))
    /\ caldbs = InitCaldbs(StoreLocks)
    /\ directories = InitDirectories(StoreLocks)
    /\ sched = [ c \in Coords |-> IF c = 1 THEN LoopTop(numproc, <<>>) ELSE Off ]
    /\ inprogress = [ c \in Coords |-> <<>> ]
    /\ CALDB_LOCKS = [ c \in Coords |-> {} ]
    /\ held = {}
    /\ call = NoCall

\* Every file of the store is past cleaning and review and every pulsar has
\* a calibrator scan: NextLocks is Next without the steps that are never
\* enabled on this store.
WorkerLocks(c, i) ==
    \/ MarkRunning(c, i)
    \/ Acquire(c, i)
    \/ CalScanOK(c, i)
    \/ CalibrateRaise(c, i)
    \/ PulsarGetCaldb(c, i)
    \/ PulsarCalibrated(c, i)
    \/ PulsarCalibrateRaise(c, i)
    \/ PulsarOK(c, i)
    \/ CalibrateHandler(c, i)
    \/ UpdateCaldbGet(c, i)
    \/ UpdateCaldbTx(c, i)
    \/ UpdateCaldbReattempt(c, i)

NextLocks ==
    \/ \E c \in Coords : Select(c) \/ Launch(c) \/ Reap(c)
    \/ \E c \in Coords : \E i \in 1 .. MaxProc : WorkerLocks(c, i)

SpecLocks == InitLocks /\ [][NextLocks]_vars

\* One coordinator started on a store with pulsar A and two calibrator scans
\* of A, each with a 'cleaned' row that passed quality control, and no
\* calibrator database: as on the store of SpecLocks, the steps that are
\* ever enabled are those of NextLocks.
StoresScans == { << "reviewed", "reviewed", "reviewed" >> }

InitScans == InitWith({1}, StoresScans)

SpecScans == InitScans /\ [][NextLocks]_vars

\* ------------------------------------------- direct calls: can_calibrate

\* No daemon runs: the functions are called on a store as it stands.
NoDaemon ==
    /\ directories = <<>>
    /\ numproc = 0
    /\ priority = PriorityNone
    /\ active = {}
    /\ sched = [ c \in Coords |-> Off ]
    /\ inprogress = [ c \in Coords |-> <<>> ]
    /\ CALDB_LOCKS = [ c \in Coords |-> {} ]
    /\ held = {}
    /\ call = NoCall

daemonvars == << argvars, sched, inprogress, CALDB_LOCKS, held >>


\* The 'cleaned' files of observation o, one per entry of qcs.
CleanedFiles(o, status, qcs) ==
    [ j \in DOMAIN qcs |->
        [ NewFile(o, "cleaned", status, 0, 0, None) EXCEPT !.qcpassed = qcs[j] ] ]

\* The verdicts quality control may have left on the files of a scan.
QcLists == { <<>>, <<"null">>, <<"true">>, <<"false">>, <<"true", "false">> }

\* The stores can_calibrate is called on: a pulsar observation of A that
\* started at hour 3, a calibrator scan whose name, start, receiver and
\* files vary, and possibly a second scan of A_R at hour 3.
InitCal ==
    /\ NoDaemon
    /\ now \in { 170, 171 }
    /\ caldbs = <<>>
    /\ \E prcvr \in { "L", None }, name \in { SrcAR, SrcBR },
          start \in { 0, 1, 5, 6 }, rcvr \in { "L", "S", None },
          qcs \in QcLists, more \in { <<>>, <<"true">>, <<"false">> } :
          /\ obs = << [ sourcename |-> SrcA, obstype |-> ObsType(SrcA),
                        start_mjd |-> 3, rcvr |-> prcvr ],
                      [ sourcename |-> name, obstype |-> ObsType(name),
                        start_mjd |-> start, rcvr |-> rcvr ] >>
                   \o (IF more = <<>> THEN <<>>
                       ELSE << [ sourcename |-> SrcAR, obstype |-> ObsType(SrcAR),
                                 start_mjd |-> 3, rcvr |-> "L" ] >>)
          /\ files = CleanedFiles(1, "calfail", <<"true">>)
                     \o CleanedFiles(2, "new", qcs)
                     \o CleanedFiles(3, "new", more)

\* can_calibrate without the test of obstype.
CanCalibrateOutcome_NoTypeTest(obs_id) ==
    IF can_calibrate(obs_id) THEN "True" ELSE "False"

\* can_calibrate as a whole: InputError for an observation that is not a
\* pulsar's, and the verdict otherwise.
CanCalibrateOutcome(obs_id) ==
    IF obs[obs_id].obstype # "pulsar" THEN "InputError"
    ELSE IF can_calibrate(obs_id) THEN "True" ELSE "False"

CanCalibrateCall(o) ==
    /\ o \in DOMAIN obs
    /\ call' = [ NoCall EXCEPT !.fn = "can_calibrate", !.obs_id = o,
                               !.ret = CanCalibrateOutcome(o) ]
    /\ UNCHANGED << dbvars, now, daemonvars, directories >>

NextCal == \E o \in 1 .. Len(ObsNames) : CanCalibrateCall(o)

SpecCal == InitCal /\ [][NextCal]_vars

\* ------------------------------------ direct calls: reattempt_calibration

\* The files reattempt_calibration is called on: one of pulsar A that is
\* due for a new attempt, and two of any observation, status, stage and
\* verdict.
AnyFile ==
    { [ NewFile(o, stage, status, 0, 0, None) EXCEPT !.qcpassed = qc ] :
        o \in 1 .. 3, stage \in { "corrected", "cleaned" },
        status \in { "calfail", "new", "failed" }, qc \in { "true", "false", "null" } }

InitReattempt ==
    /\ NoDaemon
    /\ now = StartHour
    /\ caldbs = <<>>
    /\ obs = [ k \in 1 .. 3 |->
                LET name == << SrcA, SrcAR, SrcB >>[k]
                IN  [ sourcename |-> name, obstype |-> ObsType(name),
                      start_mjd |-> ObsStart[k], rcvr |-> "L" ] ]
    /\ \E f2 \in AnyFile, f3 \in AnyFile :
          files = CleanedFiles(1, "calfail", <<"true">>) \o << f2, f3 >>

ReattemptCall(name) ==
    /\ files' = reattempt_calibration(name)
    /\ call' = [ NoCall EXCEPT !.fn = "reattempt_calibration", !.name = name,
                               !.again = (call.fn = "reattempt_calibration"
                                          /\ call.name = name) ]
    /\ UNCHANGED << obs, caldbs, now, daemonvars, directories >>

NextReattempt == \E name \in { SrcA, SrcAR, SrcB } : ReattemptCall(name)

SpecReattempt == InitReattempt /\ [][NextReattempt]_vars

\* ------------------------------------------------ direct calls: update_caldb

\* The number of update_caldb calls that are followed.
MaxCalls == 3

\* A calibrated calibrator file of observation o.
CalibratedFile(o, status, added) ==
    [ NewFile(o, "calibrated", status, 0, 0, None)
        EXCEPT !.qcpassed = "true", !.added = added ]

\* The stores update_caldb is called on: scans of A_R and B_R and pulsar A;
\* calibrated calibrator files that are 'new' or 'done', added before or
\* after the calibrator database of A was last modified, when it exists;
\* and a file of pulsar A that waits for a new attempt.
InitCaldb ==
    /\ NoDaemon
    /\ now = StartHour
    /\ obs = [ k \in 1 .. 3 |->
                LET name == << SrcAR, SrcBR, SrcA >>[k]
                IN  [ sourcename |-> name, obstype |-> ObsType(name),
                      start_mjd |-> ObsStart[k], rcvr |-> "L" ] ]
    /\ \E s1 \in { "new", "done" }, s2 \in { "new", "done" },
          other \in BOOLEAN :
          files = << CalibratedFile(1, s1, StartHour - 3),
                     CalibratedFile(1, s2, StartHour - 1) >>
                  \o (IF other THEN << CalibratedFile(2, "new", StartHour - 1) >>
                      ELSE <<>>)
                  \o CleanedFiles(3, "calfail", <<"true">>)
    /\ \E n \in 0 .. 2, st \in { "ready", "failed" } :
          caldbs \in { <<>>,
                       << [ sourcename |-> SrcA, numentries |-> n, status |-> st,
                            last_modified |-> StartHour - 2 ] >> }

\* update_caldb(name, force) as a whole: get_caldb, the transaction, and
\* reattempt_calibration unless an error has left the function before.
UpdateCaldbCall(name, force) ==
    /\ now < StartHour + MaxCalls
    /\ now' = now + 1
    /\ LET found == get_caldb(name)
           k == IF found = {} THEN 0 ELSE CHOOSE j \in found : TRUE
           rec == [ NoCall EXCEPT !.fn = "update_caldb", !.name = name,
                                  !.force = force,
                                  !.again = /\ call.fn = "update_caldb"
                                            /\ call.name = name
                                            /\ call.force = force ]
       IN  IF Cardinality(found) > 1
           THEN /\ call' = [ rec EXCEPT !.ret = "DatabaseError" ]
                /\ UNCHANGED << files, caldbs >>
           ELSE \E ok \in BOOLEAN :
                  LET r == CaldbTx(k, StripR(name), force, ok) IN
                  /\ caldbs' = r.caldbs
                  /\ files' = IF r.raised THEN files
                              ELSE reattempt_calibration(name)
                  /\ call' = [ rec EXCEPT !.ret = IF r.raised THEN "raised" ELSE "outpath",
                                          !.tool = r.tool,
                                          !.reattempted = ~r.raised ]
    /\ UNCHANGED << obs, daemonvars, directories >>

NextCaldb ==
    \E name \in { SrcA, SrcAR }, force \in BOOLEAN : UpdateCaldbCall(name, force)

SpecCaldb == InitCaldb /\ [][NextCaldb]_vars

\* ------------------------------------ direct calls: the stage functions

\* The rows a stage function may be handed: of the pulsar observation or of
\* the calibrator scan, at any stage, with or without a verdict.
StageRows ==
    { [ NewFile(o, stage, status, 0, 0, None) EXCEPT !.qcpassed = qc ] :
        o \in 1 .. 2, stage \in Range(STAGES),
        status \in { "new", "processed", "failed" },
        qc \in { "true", "false", "null" } }

\* No coordinator runs its loop; process 1 is the caller of the stage
\* functions.  The store has a pulsar observation of A, a calibrator scan of
\* A, the calibrator database of A and one files row.
InitStage ==
    /\ now = StartHour
    /\ directories = <<>>
    /\ numproc = 0
    /\ priority = PriorityNone
    /\ active = {1}
    /\ sched = [ c \in Coords |-> Off ]
    /\ inprogress = [ c \in Coords |-> <<>> ]
    /\ CALDB_LOCKS = [ c \in Coords |-> {} ]
    /\ held = {}
    /\ call = NoCall
    /\ obs = [ k \in 1 .. 2 |->
                 [ sourcename |-> ObsNames[k], obstype |-> ObsType(ObsNames[k]),
                   start_mjd |-> ObsStart[k], rcvr |-> "L" ] ]
    /\ caldbs = << [ sourcename |-> SrcA, numentries |-> 0, status |-> "ready",
                     last_modified |-> StartHour - 1 ] >>
    /\ \E row \in StageRows : files = << row >>

\* A stage function (ACTIONS[action]'s actfunc) is called on the joined row
\* of file f as it is now, in a process of its own, with the lock of the
\* row's source when the function takes one; the row is not 'submitted'
\* first.  The statements of the function are the worker steps.
StageCall(action, f) ==
    /\ f \in DOMAIN files
    /\ Len(inprogress[1]) < MaxProc
    /\ LET row == Snapshot(f)
           lock == IF Actions[action].withlock
                   THEN get_caldb_lock(1, row.sourcename) ELSE NoLock
       IN  /\ inprogress' = [ inprogress EXCEPT ![1] = Append(@, NewProc(action, row, lock)) ]
           /\ CALDB_LOCKS' = IF Actions[action].withlock
                             THEN [ CALDB_LOCKS EXCEPT ![1] = @ \cup { lock[2] } ]
                             ELSE CALDB_LOCKS
    /\ call' = [ NoCall EXCEPT !.fn = Actions[action].actfunc ]
    /\ UNCHANGED << dbvars, now, argvars, directories, sched, held >>

\* The message of the error for an unknown action has two '%s' and is
\* formatted with one argument, the joined keys of ACTIONS.
MessagePlaceholders == 2
MessageArguments == 1

\* Python's "format % args": TypeError ("not enough arguments for format
\* string") unless there is an argument for every placeholder.
PyFormatOK(placeholders, arguments) == placeholders = arguments

\* "if action not in ACTIONS: raise errors.UnrecognizedValueError(msg % ...)":
\* the message is formatted before the error is made.
ActionTest(action) ==
    IF action \in DOMAIN Actions THEN "passed"
    ELSE IF PyFormatOK(MessagePlaceholders, MessageArguments)
         THEN "UnrecognizedValueError"
         ELSE "TypeError"

\* The actions the two functions are called with: those of ACTIONS and one
\* that ACTIONS does not have.
CallableActions == DOMAIN Actions \cup { "archive" }

\* get_todo(db, action, priorities) called directly; it only reads.
GetTodoCall(action, priorities) ==
    /\ call' = [ NoCall EXCEPT
                   !.fn = "get_todo", !.action = action,
                   !.ret = IF ActionTest(action) # "passed" THEN ActionTest(action)
                           ELSE IF get_todo(action, priorities) = {} THEN "no rows"
                           ELSE "rows" ]
    /\ UNCHANGED << dbvars, now, argvars, directories, sched, inprogress, CALDB_LOCKS, held >>

\* launch_task(db, action, row) called directly on the joined row of file f.
LaunchTaskCall(action, f) ==
    /\ f \in DOMAIN files
    /\ Len(inprogress[1]) < MaxProc
    /\ call' = [ NoCall EXCEPT
                   !.fn = "launch_task", !.action = action,
                   !.ret = IF ActionTest(action) # "passed" THEN ActionTest(action)
                           ELSE "proc" ]
    /\ IF ActionTest(action) = "passed"
       THEN launch_task(1, action, Snapshot(f))
       ELSE UNCHANGED << files, inprogress, CALDB_LOCKS >>
    /\ UNCHANGED << obs, caldbs, now, argvars, directories, sched, held >>

NextStage ==
    \/ \E action \in DOMAIN Actions : \E f \in 1 .. MaxFiles : StageCall(action, f)
    \/ \E c \in Coords : \E i \in 1 .. MaxProc : Worker(c, i)

SpecStage == InitStage /\ [][NextStage]_vars

\* get_todo and launch_task called directly on the same stores, and the
\* processes launch_task starts.
NextAction ==
    \/ \E action \in CallableActions :
          \/ \E priorities \in Priorities : GetTodoCall(action, priorities)
          \/ \E f \in 1 .. MaxFiles : LaunchTaskCall(action, f)
    \/ \E c \in Coords : \E i \in 1 .. MaxProc : Worker(c, i)

SpecAction == InitStage /\ [][NextAction]_vars

\* ------------------------------- startup: load_directories, load_groups

\* The raw data directories get_rawdata_dirs lists, in order: paths
\* 1 .. MaxDirs.
RawDirs == [ k \in 1 .. MaxDirs |-> k ]

\* main before its loop: the position in load_directories and in the
\* grouping loop, and their locals.
\*   newer:    the listed paths whose mtime is later than
\*             most_recent_addtime, computed once at the start;
\*   ii:       the index of the path load_directories looks at;
\*   ninserts: its count of inserted rows;
\*   dirrows:  the rows get_togroup returned that are not yet grouped;
\*   marked:   load_groups has marked the head of dirrows 'running'.
StartTop(newer) ==
    [ pc |-> "loaddirs", newer |-> newer, ii |-> 1, ninserts |-> 0,
      dirrows |-> <<>>, marked |-> FALSE ]

\* The insert into directories without the unique constraint on path.
InsertDirectory_NoConstraint(path) ==
    [ ok |-> TRUE,
      rows |-> Append(directories, [ path |-> path, status |-> "new" ]) ]

\* "with db.transaction() as conn: conn.execute(insert)": directories.path
\* is unique, so the insert of a path that has a row is refused and rolled
\* back.
InsertDirectory(path) ==
    IF \E d \in DOMAIN directories : directories[d].path = path
    THEN [ ok |-> FALSE, rows |-> directories ]
    ELSE [ ok |-> TRUE,
           rows |-> Append(directories, [ path |-> path, status |-> "new" ]) ]

\* One pass of the loop of load_directories; after the last path, main
\* calls get_togroup.
LoadDirectory(c) ==
    /\ c \in active
    /\ sched[c].pc = "loaddirs"
    /\ sched[c].ii <= Len(RawDirs)
    /\ LET s == sched[c]
           path == RawDirs[s.ii]
           r == InsertDirectory(path)
       IN  IF path \in s.newer
           THEN /\ directories' = r.rows
                /\ sched' = [ sched EXCEPT ![c] =
                     [ s EXCEPT !.ii = @ + 1,
                                !.ninserts = IF r.ok THEN @ + 1 ELSE @ ] ]
           ELSE /\ directories' = directories
                /\ sched' = [ sched EXCEPT ![c] = [ s EXCEPT !.ii = @ + 1 ] ]
    /\ UNCHANGED << dbvars, now, argvars, call, inprogress, CALDB_LOCKS, held >>

\* get_togroup: the directories rows with status 'new'.
get_togroup ==
    SelectSeq([ d \in DOMAIN directories |-> d ],
              LAMBDA d : directories[d].status = "new")

GetToGroup(c) ==
    /\ c \in active
    /\ sched[c].pc = "loaddirs"
    /\ sched[c].ii > Len(RawDirs)
    /\ sched' = [ sched EXCEPT ![c] =
                    [ sched[c] EXCEPT !.pc = "group", !.dirrows = get_togroup ] ]
    /\ UNCHANGED << dbvars, directories, now, argvars, call, inprogress,
                    CALDB_LOCKS, held >>

\* load_groups, "Mark as running".  (The row copy has status 'new': it comes
\* from get_togroup.)
GroupMark(c) ==
    /\ c \in active
    /\ sched[c].pc = "group"
    /\ sched[c].dirrows # <<>>
    /\ ~ sched[c].marked
    /\ directories' = [ directories EXCEPT ![Head(sched[c].dirrows)].status = "running" ]
    /\ sched' = [ sched EXCEPT ![c].marked = TRUE ]
    /\ UNCHANGED << dbvars, now, argvars, call, inprogress, CALDB_LOCKS, held >>

\* The observation make_groups finds in a directory.
DirSource(path) == ObsNames[((path - 1) % Len(ObsNames)) + 1]
DirStart(path) == ObsStart[((path - 1) % Len(ObsStart)) + 1]

\* load_groups succeeds: the obs row, its 'grouped' files row (and its log)
\* and the directory's 'processed', in one transaction.
GroupOK(c) ==
    /\ c \in active
    /\ sched[c].pc = "group"
    /\ sched[c].dirrows # <<>>
    /\ sched[c].marked
    /\ LET d == Head(sched[c].dirrows)
           path == directories[d].path
       IN  /\ obs' = Append(obs, [ sourcename |-> DirSource(path),
                                   obstype |-> ObsType(DirSource(path)),
                                   start_mjd |-> DirStart(path),
                                   rcvr |-> None ])
           /\ files' = Append(files, NewFile(Len(obs) + 1, "grouped", "new", 0, 0, None))
           /\ directories' = [ directories EXCEPT ![d].status = "processed" ]
    /\ sched' = [ sched EXCEPT ![c].dirrows = Tail(@), ![c].marked = FALSE ]
    /\ UNCHANGED << caldbs, now, argvars, call, inprogress, CALDB_LOCKS, held >>

\* The kinds of exception the grouping raises: a CoastGuardError, another
\* exception whose first argument is a string (ValueError), and an
\* IOError/OSError, whose first argument is the errno.
GroupExcKinds == ExcKinds \cup { "ValueError" }

\* main's "except errors.CoastGuardError" around load_groups.  The handler
\* of load_groups re-raises the exception, or the TypeError of its own line
\* exc.args = (exc.args[0] + "\n(Dir ID: %d)" % dir_id,).
MainCatches(kind) == kind = "CoastGuardError"

\* load_groups fails: the handler marks the directory 'failed' unless its
\* own line raises, and main goes on with the next row when it catches the
\* error and ends when it does not.
GroupFail(c) ==
    /\ c \in active
    /\ sched[c].pc = "group"
    /\ sched[c].dirrows # <<>>
    /\ sched[c].marked
    /\ \E kind \in GroupExcKinds :
         /\ directories' =
               IF kind # "IOError"
               THEN [ directories EXCEPT ![Head(sched[c].dirrows)].status = "failed" ]
               ELSE directories
         /\ sched' = [ sched EXCEPT ![c] =
                         IF MainCatches(kind)
                         THEN [ sched[c] EXCEPT !.dirrows = Tail(@), !.marked = FALSE ]
                         ELSE [ sched[c] EXCEPT !.pc = "crashed" ] ]
    /\ UNCHANGED << dbvars, now, argvars, call, inprogress, CALDB_LOCKS, held >>

\* "Entering main loop...".
EnterLoop(c) ==
    /\ c \in active
    /\ sched[c].pc = "group"
    /\ sched[c].dirrows = <<>>
    /\ sched' = [ sched EXCEPT ![c] = LoopTop(numproc, <<>>) ]
    /\ UNCHANGED << dbvars, directories, now, argvars, call, inprogress,
                    CALDB_LOCKS, held >>

\* The directories rows earlier runs left: none, or rows that were never
\* grouped ('new') or whose grouping failed, at most one per path.
DirTables ==
    { t \in UNION { [ 1 .. n -> [ path : 1 .. MaxDirs, status : { "new", "failed" } ] ] :
                     n \in 0 .. MaxDirs } :
        \A a \in DOMAIN t, b \in DOMAIN t : t[a].path = t[b].path => a = b }

\* main() is started, by one coordinator or by two at the same time, with
\* -n '%' on a database without observations.
InitStart ==
    /\ now = StartHour
    /\ numproc = 1
    /\ priority = PriorityAny
    /\ active \in { {1}, {1, 2} }
    /\ files = <<>>
    /\ obs = <<>>
    /\ caldbs = <<>>
    /\ directories \in DirTables
    /\ \E newer \in SUBSET (1 .. MaxDirs) :
          /\ directories = <<>> => newer = 1 .. MaxDirs
          /\ sched = [ c \in Coords |-> IF c \in active THEN StartTop(newer) ELSE Off ]
    /\ inprogress = [ c \in Coords |-> <<>> ]
    /\ CALDB_LOCKS = [ c \in Coords |-> {} ]
    /\ held = {}
    /\ call = NoCall

NextStart ==
    \E c \in Coords :
        \/ LoadDirectory(c)
        \/ GetToGroup(c)
        \/ GroupMark(c)
        \/ GroupOK(c)
        \/ GroupFail(c)
        \/ EnterLoop(c)

SpecStart == InitStart /\ [][NextStart]_vars

\* ------------------------------------------------- the daemon and the clock

\* The hour at which the daemon of the specification below starts: in the
\* 7th day after the observation of the store.
FirstHour == 165

\* One pulsar observation with a 'cleaned' row that passed quality control,
\* no calibrator scan and no calibrator database.
StoreGrace == << "reviewed" >>

InitGrace ==
    /\ now = FirstHour
    /\ numproc \in 1 .. MaxProc
    /\ priority = PriorityAny
    /\ active = {1}
    /\ obs = InitObs(StoreGrace)
    /\ files = BuildFiles(StoreGrace, Len(StoreGrace))
    /\ caldbs = InitCaldbs(StoreGrace)
    /\ directories = InitDirectories(StoreGrace)
    /\ sched = [ c \in Coords |-> IF c = 1 THEN LoopTop(numproc, <<>>) ELSE Off ]
    /\ inprogress = [ c \in Coords |-> <<>> ]
    /\ CALDB_LOCKS = [ c \in Coords |-> {} ]
    /\ held = {}
    /\ call = NoCall

\* rs.utils.mjdnow() returns a later time: an hour has passed.
Tick ==
    /\ now < StartHour
    /\ now' = now + 1
    /\ UNCHANGED << dbvars, argvars, directories, call, sched, inprogress, CALDB_LOCKS, held >>

\* The steps of main's loop, and those of one worker: no calibrator scan and
\* no calibrator database ever exists on this store, so the worker's steps
\* are Next's without the steps that are never enabled.
MainGrace(c) == Select(c) \/ Launch(c) \/ Reap(c)

WorkerGrace(c, i) ==
    \/ MarkRunning(c, i)
    \/ LoadOK(c, i)
    \/ LoadFail(c, i)
    \/ PulsarGetCaldb(c, i)
    \/ CalibrateHandler(c, i)

NextGrace ==
    \/ \E c \in Coords : MainGrace(c)
    \/ \E c \in Coords : \E i \in 1 .. MaxProc : WorkerGrace(c, i)
    \/ Tick

\* The operating system runs every process that can take a step, and the
\* clock goes on.
SpecGrace ==
    /\ InitGrace
    /\ [][NextGrace]_vars
    /\ \A c \in Coords : WF_vars(MainGrace(c))
    /\ \A c \in Coords : \A i \in 1 .. MaxProc : WF_vars(WorkerGrace(c, i))
    /\ WF_vars(Tick)

\* ------------------------------------------------------------- the claims

AllProcs == { << c, i >> : c \in Coords, i \in 1 .. MaxProc }
Live(ci) == ci[1] \in active /\ ci[2] \in DOMAIN inprogress[ci[1]]
P(ci) == inprogress[ci[1]][ci[2]]

\* C1: a coordinator never has more than numproc processes in flight, and
\* the tasks launched in one iteration never exceed the free slots counted
\* at its start.
C1_Bounded ==
    \A c \in active :
        /\ Len(inprogress[c]) <= numproc
        /\ sched[c].started <= sched[c].free0

\* C1 witness: an iteration that filled every free slot and left an eligible
\* row behind.
C1_Witness ==
    \E c \in active :
        /\ sched[c].missed # {}
        /\ sched[c].started = sched[c].free0
        /\ sched[c].free0 > 0
        /\ Len(inprogress[c]) = numproc

\* The workers inside a region that accesses the calibration aggregate of a
\* source: from lock.acquire() to lock.release().
InRegion(ci) == Live(ci) /\ P(ci).pc \in { "locked", "caldb", "reattempt" }
WantsRegion(ci) == Live(ci) /\ P(ci).pc = "wantlock"
Canonical(ci) == StripR(P(ci).row.sourcename)

\* C3: two workers of the same canonical source are never inside their
\* locked regions (calibrate.calibrate, update_caldb) at the same time.
C3_MutualExclusion ==
    \A a \in AllProcs, b \in AllProcs :
        (a # b /\ InRegion(a) /\ InRegion(b)) => Canonical(a) # Canonical(b)

\* C3 witness: a pulsar worker is inside calibrate.calibrate while the
\* calibrator worker of the same source waits for the lock.
C3_Witness ==
    \E a \in AllProcs, b \in AllProcs :
        /\ a # b
        /\ InRegion(a) /\ P(a).row.obstype = "pulsar"
        /\ WantsRegion(b) /\ P(b).row.obstype = "cal"
        /\ Canonical(a) = Canonical(b)

StageIndex(stage) == CHOOSE j \in DOMAIN STAGES : STAGES[j] = stage

C5_ChildIffProcessed ==
    /\ \A f \in DOMAIN files :
          files[f].parent_file_id # 0 =>
              files[files[f].parent_file_id].status = "processed"
    /\ \A p \in DOMAIN files :
          files[p].status = "processed" =>
              \E f \in DOMAIN files : files[f].parent_file_id = p

\* C5 witness: a combine worker has committed: its 'combined' row is 'new'
\* and the 'grouped' parent is 'processed'.
C5_Witness ==
    \E f \in DOMAIN files :
        /\ files[f].stage = "combined"
        /\ files[f].status = "new"
        /\ files[files[f].parent_file_id].status = "processed"

\* C2: a row is dispatched once: no two workers that have not ended, of any
\* coordinator, work on the same file.
C2_ExactlyOnce ==
    \A a \in AllProcs, b \in AllProcs :
        (a # b /\ Live(a) /\ Live(b) /\ P(a).pc # "dead" /\ P(b).pc # "dead")
            => P(a).row.file_id # P(b).row.file_id

\* The step in which worker i of coordinator c ends by raising.
Raises(c, i, from) ==
    /\ c \in active /\ i \in DOMAIN inprogress[c]
    /\ inprogress[c][i].pc \in from
    /\ i \in DOMAIN inprogress'[c]
    /\ inprogress'[c][i].pc = "dead"
    /\ inprogress'[c][i].exitcode = "nonzero"

\* C6: when the transform of a combine, correct or clean worker raises, the
\* step that ends the worker leaves its row 'failed' with a note and adds no
\* row.
C6_FailedOnRaise ==
    [][ \A c \in Coords, i \in 1 .. MaxProc :
          ( /\ Raises(c, i, { "work" })
            /\ inprogress[c][i].action \in { "combine", "correct", "clean" } )
          => LET f == inprogress[c][i].row.file_id IN
             /\ files'[f].status = "failed"
             /\ files'[f].note # None
             /\ Len(files') = Len(files) ]_vars

\* C7: when the calibrate worker fails in its transform, the step that ends
\* the worker leaves its row 'failed' for a calibrator scan, and otherwise
\* 'calfail' when can_calibrate holds and 'toload' when it does not; no row
\* is added.
C7_CalibrateFailStatus ==
    [][ \A c \in Coords, i \in 1 .. MaxProc :
          ( /\ Raises(c, i, { "handler" })
            /\ inprogress[c][i].action = "calibrate" )
          => LET row == inprogress[c][i].row IN
             /\ files'[row.file_id].status =
                   IF row.obstype = "cal" THEN "failed"
                   ELSE IF can_calibrate(row.obs_id) THEN "calfail"
                   ELSE "toload"
             /\ Len(files') = Len(files) ]_vars

\* The source name of file f matches one of the priority patterns.
Listed(name) ==
    \E k \in DOMAIN priority.patterns : Like(name, priority.patterns[k])

\* The rows C8 names for an action.
Eligible(action) ==
    { f \in DOMAIN files :
        /\ files[f].status = "new"
        /\ files[f].stage = CASE action = "combine" -> "grouped"
                              [] action = "correct" -> "combined"
                              [] action = "clean" -> "corrected"
                              [] action = "calibrate" -> "cleaned"
        /\ (action = "calibrate" => files[f].qcpassed = "true")
        /\ (priority.given => Listed(obs[files[f].obs_id].sourcename)) }

\* C8: the selection for combine, correct, clean or calibrate takes its rows
\* from exactly the rows with status 'new', the action's stage, qcpassed
\* true for calibrate and a listed source when priorities are given: as
\* many of them as there are free slots, each once, and all of them when
\* the slots suffice; and it changes no row.
C8_GetTodoExact ==
    [][ \A c \in Coords :
          ( /\ c \in active
            /\ sched[c].pc = "select"
            /\ sched'[c] # sched[c]
            /\ CATEGORIES[sched[c].cat] # "load" )
          => LET want == Eligible(CATEGORIES[sched[c].cat])
                 n == Min(sched[c].nfree, Cardinality(want))
                 rows == sched'[c].rows
             IN  /\ dbvars' = dbvars
                 /\ IF n = 0 THEN sched'[c].pc # "launch"
                    ELSE /\ sched'[c].pc = "launch"
                         /\ Len(rows) = n
                         /\ \A j \in DOMAIN rows :
                               /\ rows[j].file_id \in want
                               /\ rows[j].status = "new"
                         /\ \A j \in DOMAIN rows, k \in DOMAIN rows :
                               rows[j].file_id = rows[k].file_id => j = k ]_vars

\* C8 witness: the rows for 'calibrate' have been selected while a 'cleaned'
\* row with status 'new' that has not passed quality control stays behind.
C8_Witness ==
    \E c \in active :
        /\ sched[c].pc = "launch"
        /\ CATEGORIES[sched[c].cat] = "calibrate"
        /\ sched[c].rows # <<>>
        /\ "calibrate" \notin sched[c].missed
        /\ \E f \in DOMAIN files :
              /\ files[f].status = "new"
              /\ files[f].stage = "cleaned"
              /\ files[f].qcpassed # "true"

\* C9 as stated: with priorities given, no worker of any category, 'load'
\* included, is launched for a source that is not listed.
C9_AllowListEveryStage ==
    priority.given =>
        \A a \in AllProcs : Live(a) => Listed(P(a).row.sourcename)

\* C9, amended: with priorities given, no worker of the categories
\* calibrate, clean, correct and combine is launched for a source that is
\* not listed; 'load' is served from get_toload, which takes no priorities.
C9_AllowListTodo ==
    priority.given =>
        \A a \in AllProcs :
            (Live(a) /\ P(a).action # "load") => Listed(P(a).row.sourcename)

\* C9 witness: priorities are given, a worker of a listed source runs, and a
\* row with status 'new' of a source that is not listed is left alone.
C9_Witness ==
    /\ priority.given
    /\ \E a \in AllProcs : Live(a) /\ P(a).action # "load" /\ P(a).pc # "dead"
    /\ \E f \in DOMAIN files :
          /\ files[f].status = "new"
          /\ files[f].stage = "grouped"
          /\ ~Listed(obs[files[f].obs_id].sourcename)

\* The order C10 names.
ServedOrder == << "load", "calibrate", "clean", "correct", "combine" >>

\* C10: in one iteration a task of a later category is launched only if no
\* earlier category left an eligible row behind.
C10_FixedOrder ==
    \A c \in active :
        \A j \in DOMAIN ServedOrder, k \in DOMAIN ServedOrder :
            (j < k /\ ServedOrder[k] \in sched[c].served)
                => ServedOrder[j] \notin sched[c].missed

\* C10 witness: one iteration has launched a 'load' task, which took every
\* row there was to load, and then a 'combine' task.
C10_Witness ==
    \E c \in active :
        /\ { "load", "combine" } \subseteq sched[c].served
        /\ "load" \notin sched[c].missed

\* The last direct call was can_calibrate on a pulsar observation.
CalledOnPulsar ==
    call.fn = "can_calibrate" /\ obs[call.obs_id].obstype = "pulsar"

Age(o) == now - obs[o].start_mjd

\* C11: for a pulsar observation less than 7 days (168 hours) old
\* can_calibrate returns true; at 7 days or more it does not: with no File
\* of any other observation the answer is false.
C11_GracePeriod ==
    CalledOnPulsar =>
        /\ Age(call.obs_id) < 168 => call.ret = "True"
        /\ ( /\ Age(call.obs_id) >= 168
             /\ \A f \in DOMAIN files : files[f].obs_id = call.obs_id )
           => call.ret = "False"

\* C11 witness: true for a pulsar of less than 7 days with no calibrator
\* file in the store.
C11_Witness ==
    /\ CalledOnPulsar
    /\ Age(call.obs_id) < 168
    /\ \A f \in DOMAIN files : files[f].obs_id = call.obs_id
    /\ call.ret = "True"

\* The calibrator observations C12 describes for pulsar observation p.
Compatible(p) ==
    { o \in DOMAIN obs :
        /\ obs[o].obstype = "cal"
        /\ obs[o].sourcename = obs[p].sourcename \o <<"_", "R">>
        /\ obs[o].start_mjd - obs[p].start_mjd \in -2 .. 2
        /\ obs[o].rcvr \in { obs[p].rcvr, None }
        /\ \E f \in DOMAIN files : files[f].obs_id = o
        /\ ~ \E f \in DOMAIN files : files[f].obs_id = o /\ files[f].qcpassed = "false" }

\* C12: at 7 days or more can_calibrate is true exactly when a compatible
\* calibrator observation exists.
C12_CalibratorSearch ==
    (CalledOnPulsar /\ Age(call.obs_id) >= 168) =>
        (call.ret = "True" <=> Compatible(call.obs_id) # {})

\* C12 witness: the only scan of A_R in the window has a file that failed
\* quality control, and the answer is false.
C12_Witness ==
    /\ CalledOnPulsar
    /\ Age(call.obs_id) >= 168
    /\ Len(obs) = 2
    /\ obs[2].sourcename = SrcAR
    /\ obs[2].start_mjd = 5
    /\ obs[2].rcvr = None
    /\ \E f \in DOMAIN files : files[f].obs_id = 2 /\ files[f].qcpassed = "false"
    /\ call.ret = "False"

\* C13: can_calibrate on an observation that is not a pulsar's raises
\* InputError and changes no row.
C13_InputError ==
    [][ ( /\ call' # call
          /\ call'.fn = "can_calibrate"
          /\ obs[call'.obs_id].obstype # "pulsar" )
        => (call'.ret = "InputError" /\ dbvars' = dbvars) ]_vars

\* C13 witness: the call on a calibrator scan has raised.
C13_Witness ==
    /\ call.fn = "can_calibrate"
    /\ obs[call.obs_id].obstype = "cal"
    /\ call.ret = "InputError"

\* The step is a call of reattempt_calibration.
ReattemptStep == call'.fn = "reattempt_calibration"

\* File f is one of those a call for source name S is to reset.
Qualifies(f, S) ==
    /\ files[f].status = "calfail"
    /\ files[f].stage = "cleaned"
    /\ files[f].qcpassed = "true"
    /\ obs[files[f].obs_id].sourcename = S

\* What a call for S leaves of the files, given the name whose files it
\* resets: those become 'new' with a note, the others stay as they are.
ResetsExactly(S) ==
    /\ DOMAIN files' = DOMAIN files
    /\ \A f \in DOMAIN files :
          IF Qualifies(f, S)
          THEN /\ files'[f].status = "new"
               /\ [ files'[f] EXCEPT !.status = "calfail", !.note = files[f].note ] = files[f]
          ELSE files'[f] = files[f]

\* C14 as stated: reattempt_calibration(S) resets exactly the files of the
\* observations whose source name is S.
C14_ResetsNamedSource ==
    [][ ReattemptStep => ResetsExactly(call'.name) ]_vars

\* C14, amended: reattempt_calibration(S) resets exactly the files of the
\* observations whose source name is S with a trailing '_R' removed.
C14_ResetsCanonicalSource ==
    [][ ReattemptStep =>
          ResetsExactly(IF call'.name = SrcAR THEN SrcA ELSE call'.name) ]_vars

\* C14 witness: a call has reset the file of pulsar A and left alone a
\* 'calfail' file that did not pass quality control.
C14_Witness ==
    /\ call.fn = "reattempt_calibration"
    /\ files[1].status = "new"
    /\ files[1].note = "Reattempting calibration"
    /\ \E f \in DOMAIN files :
          /\ files[f].status = "calfail"
          /\ files[f].stage = "cleaned"
          /\ files[f].qcpassed = "false"
          /\ files[f].obs_id = 1

\* C15: a call of reattempt_calibration when no file is 'calfail',
\* 'cleaned' and passed, and a call that repeats the one before it, change
\* no row.
C15_Idempotent ==
    [][ ReattemptStep =>
          /\ (~ \E f \in DOMAIN files :
                  /\ files[f].status = "calfail"
                  /\ files[f].stage = "cleaned"
                  /\ files[f].qcpassed = "true") => files' = files
          /\ call'.again => files' = files ]_vars

\* C15 witness: the call that reset the file of pulsar A has been repeated.
C15_Witness ==
    /\ call.fn = "reattempt_calibration"
    /\ call.again
    /\ call.name = SrcA
    /\ files[1].note = "Reattempting calibration"

\* The step is a call of update_caldb that got past get_caldb.
UpdateCaldbStep == call'.fn = "update_caldb" /\ call'.ret # "DatabaseError"

\* The name update_caldb works under: its argument without a trailing '_R'.
CalledName == IF call'.name = SrcAR THEN SrcA ELSE call'.name

\* The caldbs rows of CalledName before and after the step.
RowsBefore == { k \in DOMAIN caldbs : caldbs[k].sourcename = CalledName }
RowsAfter == { k \in DOMAIN caldbs' : caldbs'[k].sourcename = CalledName }

\* C16: a call of update_caldb with force=False that repeats the call
\* before it runs no rebuild and leaves numentries as it was.
C16_SecondCallSkips ==
    [][ (UpdateCaldbStep /\ ~call'.force /\ call'.again) =>
          /\ call'.tool = "none"
          /\ \A k \in RowsAfter :
                k \in RowsBefore /\ caldbs'[k].numentries = caldbs[k].numentries ]_vars

\* C17: when the aggregation tool fails, the row of the source ends
\* 'failed', and numentries of a row that existed is as before the call.
C17_FailureKeepsState ==
    [][ (UpdateCaldbStep /\ call'.tool = "failed") =>
          /\ RowsAfter # {}
          /\ \A k \in RowsAfter : caldbs'[k].status = "failed"
          /\ \A k \in RowsBefore : caldbs'[k].numentries = caldbs[k].numentries ]_vars

\* The validated calibrator files of CalledName: 'calibrated', 'new', of a
\* calibrator scan of that source.
ValidatedEntries ==
    { f \in DOMAIN files :
        /\ files[f].stage = "calibrated"
        /\ files[f].status = "new"
        /\ obs[files[f].obs_id].obstype = "cal"
        /\ obs[files[f].obs_id].sourcename = CalledName \o <<"_", "R">> }

\* C18: when the rebuild succeeds, the row of the source ends 'ready' with
\* numentries equal to the number of validated calibrator files of that
\* source, whether the row existed or is created by the call.
C18_SuccessRecordsCount ==
    [][ (UpdateCaldbStep /\ call'.tool = "ok") =>
          /\ RowsAfter # {}
          /\ \A k \in RowsAfter :
                /\ caldbs'[k].status = "ready"
                /\ caldbs'[k].numentries = Cardinality(ValidatedEntries) ]_vars

\* C19: every call of update_caldb, with the rebuild skipped, succeeding or
\* failing, ends with reattempt_calibration for the same source: no file of
\* the source is left 'calfail', 'cleaned' and passed.
C19_AlwaysReattempts ==
    [][ UpdateCaldbStep =>
          /\ call'.reattempted
          /\ ~ \E f \in DOMAIN files' :
                 /\ files'[f].status = "calfail"
                 /\ files'[f].stage = "cleaned"
                 /\ files'[f].qcpassed = "true"
                 /\ obs[files'[f].obs_id].sourcename = CalledName ]_vars

\* The workers of a coordinator that were given a lock by launch_task.
WithLock(ci) == Live(ci) /\ P(ci).lock # NoLock

\* C20: within a coordinator two workers have the same lock exactly when
\* their rows, of a pulsar or of a calibrator scan, have the same canonical
\* source name; the lock of a name, once made, stays in CALDB_LOCKS; and a
\* worker that waits for a lock that is taken waits for a worker of its own
\* canonical source.
C20_LockPerSource ==
    /\ \A a \in AllProcs, b \in AllProcs :
          (WithLock(a) /\ WithLock(b) /\ a[1] = b[1]) =>
             /\ P(a).lock[2] \in CALDB_LOCKS[a[1]]
             /\ (P(a).lock = P(b).lock) <=> (Canonical(a) = Canonical(b))
    /\ \A b \in AllProcs :
          (WantsRegion(b) /\ P(b).lock \in held) =>
             \E a \in AllProcs :
                 a # b /\ InRegion(a) /\ Canonical(a) = Canonical(b)

\* C20 witness: the worker of pulsar A and the worker of a calibrator scan of
\* B are inside their locked regions at the same time, after the worker of
\* the calibrator scan of A has gone through the region of A.
C20_Witness ==
    \E a \in AllProcs, b \in AllProcs :
        /\ InRegion(a) /\ P(a).row.sourcename = SrcA
        /\ InRegion(b) /\ P(b).row.sourcename = SrcBR
        /\ CALDB_LOCKS[a[1]] = { SrcA, SrcB }
        /\ \E f \in DOMAIN files :
              /\ obs[files[f].obs_id].sourcename = SrcAR
              /\ files[f].stage = "calibrated"

\* C21: the locks that are held are the locks of the workers inside their
\* guarded regions, one worker per lock: a worker that has left its region,
\* by return or by an exception, or has ended, holds no lock, and a worker
\* holds no lock but the one it was given.
C21_ScopedRelease ==
    /\ held = { P(a).lock : a \in { x \in AllProcs : InRegion(x) } }
    /\ \A a \in AllProcs, b \in AllProcs :
          (InRegion(a) /\ InRegion(b) /\ P(a).lock = P(b).lock) => a = b

\* C21 witness: the worker of a calibrator scan has ended with an error
\* raised inside update_caldb, after its commit, and its lock is free.
C21_Witness ==
    \E a \in AllProcs :
        /\ Live(a)
        /\ P(a).pc = "dead" /\ P(a).exitcode = "nonzero"
        /\ P(a).row.obstype = "cal"
        /\ files[P(a).row.file_id].status = "processed"
        /\ P(a).lock \notin held

\* The step is coordinator c's check for completed tasks.
ReapStep(c) == c \in active /\ sched[c].pc = "sleep" /\ sched'[c] # sched[c]

\* C22: the check for completed tasks removes from inprogress the workers
\* that have ended, whatever their exit code, and no other, keeps the order
\* of the rest, and the loop goes to its next iteration with the slots freed.
C22_ReapExited ==
    [][ \A c \in Coords :
          ReapStep(c) =>
            /\ inprogress'[c] = SelectSeq(inprogress[c], LAMBDA p : p.pc # "dead")
            /\ sched'[c].pc \in { "select", "sleep" }
            /\ sched'[c].nfree = numproc - Len(inprogress'[c])
            /\ sched'[c].nfree > 0 => sched'[c].pc = "select" ]_vars

\* C22 witness: a worker that ended with an error has been removed (its row
\* is 'failed' and no worker of inprogress has the row), and in the
\* iteration under way a task has been launched while another goes on.
C22_Witness ==
    \E c \in Coords, f \in DOMAIN files :
        /\ files[f].status = "failed"
        /\ \A i \in DOMAIN inprogress[c] : inprogress[c][i].row.file_id # f
        /\ sched[c].started > 0
        /\ \E i \in DOMAIN inprogress[c] : inprogress[c][i].pc # "dead"

\* The positions of a worker that has not ended.
RunningPcs ==
    { "start", "work", "wantlock", "locked", "calibrated", "handler",
      "caldb", "reattempt" }

\* C23: the step that ends a worker with an error leaves the worker's row
\* with a failure status: 'failed', 'calfail' or 'toload'.
C23_FailureCommitted ==
    [][ \A c \in Coords, i \in 1 .. MaxProc :
          Raises(c, i, RunningPcs) =>
             files'[inprogress[c][i].row.file_id].status
                \in { "failed", "calfail", "toload" } ]_vars

\* The step is the status test of a stage function failing: the function
\* ends where it reports BadStatusError.
BadStatusStep(c, i) ==
    /\ c \in active /\ i \in DOMAIN inprogress[c]
    /\ inprogress[c][i].pc = "start"
    /\ inprogress[c][i].action # "load"
    /\ ~ Precondition(inprogress[c][i].action, inprogress[c][i].row)
    /\ inprogress'[c][i].pc = "dead"

\* C24: a stage function called on a row that does not meet its (status,
\* stage) precondition reports BadStatusError and changes no row.
C24_RowUntouched ==
    [][ \A c \in Coords, i \in 1 .. MaxProc :
          BadStatusStep(c, i) => files' = files ]_vars

\* The step is a direct call of get_todo or launch_task with an action that
\* ACTIONS does not have.
UnknownActionStep ==
    /\ call'.fn \in { "get_todo", "launch_task" }
    /\ call'.action \notin DOMAIN Actions
    /\ call' # call

\* C25: get_todo and launch_task called with an action outside combine,
\* correct, clean, calibrate and load fail with UnrecognizedValueError, and
\* no row is changed and no worker started.
C25_UnrecognizedValue ==
    [][ UnknownActionStep =>
          /\ call'.ret = "UnrecognizedValueError"
          /\ UNCHANGED << dbvars, inprogress, CALDB_LOCKS, held >> ]_vars

\* C26: every 'calibrated' file of a pulsar observation names in
\* cal_file_id one existing file of a calibrator scan, and no 'calibrated'
\* file of a calibrator scan has a cal_file_id (0 stands for NULL).
C26_CalFileReference ==
    \A f \in DOMAIN files :
        files[f].stage = "calibrated" =>
            IF obs[files[f].obs_id].obstype = "cal"
            THEN files[f].cal_file_id = 0
            ELSE /\ files[f].cal_file_id \in DOMAIN files
                 /\ obs[files[files[f].cal_file_id].obs_id].obstype = "cal"

\* C27: no step changes the storage location, the stage, the parent or the
\* observation of a files row that exists.
C27_ArtifactFixed ==
    [][ \A f \in DOMAIN files :
          /\ files'[f].filepath = files[f].filepath
          /\ files'[f].stage = files[f].stage
          /\ files'[f].parent_file_id = files[f].parent_file_id
          /\ files'[f].obs_id = files[f].obs_id ]_vars

\* No two rows of directories have the same path.
UniquePaths ==
    \A a \in DOMAIN directories, b \in DOMAIN directories :
        directories[a].path = directories[b].path => a = b

\* The step is a pass of coordinator c's loop in load_directories that tries
\* to insert a path that has a row.
DuplicateInsertStep(c) ==
    /\ c \in active
    /\ sched[c].pc = "loaddirs"
    /\ sched'[c] # sched[c]
    /\ sched[c].ii <= Len(RawDirs)
    /\ RawDirs[sched[c].ii] \in sched[c].newer
    /\ \E d \in DOMAIN directories : directories[d].path = RawDirs[sched[c].ii]

\* C28: no path ever has two directories rows; an insert of a path that has
\* a row leaves the table as it is, is not counted in ninserts, and
\* load_directories goes on with the next path.
C28_NoDuplicateDirectory ==
    /\ [] UniquePaths
    /\ [][ \A c \in Coords :
             DuplicateInsertStep(c) =>
                /\ directories' = directories
                /\ sched'[c].ninserts = sched[c].ninserts
                /\ sched'[c].pc = "loaddirs"
                /\ sched'[c].ii = sched[c].ii + 1 ]_vars

\* C28 witness: load_directories has tried every listed path, some insert
\* was refused and some later one was made.
C28_Witness ==
    \E c \in Coords :
        /\ c \in active
        /\ sched[c].pc = "loaddirs"
        /\ sched[c].ii > Len(RawDirs)
        /\ sched[c].newer = Range(RawDirs)
        /\ sched[c].ninserts = 1
        /\ directories[1].path = 1 /\ directories[1].status = "failed"
        /\ \E d \in DOMAIN directories : d > 1 /\ directories[d].path = Len(RawDirs)

\* The step is load_groups failing in coordinator c: it ends the call for
\* the head of dirrows and adds no observation.
GroupFailStep(c) ==
    /\ c \in active
    /\ sched[c].pc = "group"
    /\ sched[c].marked
    /\ sched'[c] # sched[c]
    /\ obs' = obs

\* C29: when the grouping of a directory fails, with whatever error, the
\* directory ends 'failed', no obs or files row is added, and main goes on
\* with the rows that are left and then with its loop.
C29_GroupingFailureContained ==
    [][ \A c \in Coords :
          GroupFailStep(c) =>
             /\ directories'[Head(sched[c].dirrows)].status = "failed"
             /\ files' = files
             /\ sched'[c].pc = "group"
             /\ sched'[c].dirrows = Tail(sched[c].dirrows) ]_vars

\* C30: a daemon started without -n/--prioritize gets to its main loop (and
\* its selections then apply no test of the source name).
C30_NoPriorityRuns ==
    ~ priority.given => \A c \in active : sched[c].pc # "crashed"

\* The workers that have not ended and work on file f.
WorkersOn(f) ==
    { ci \in AllProcs : Live(ci) /\ P(ci).pc # "dead" /\ P(ci).row.file_id = f }

\* C31: with one coordinator no file has two workers that have not ended,
\* the row of a worker that has not ended is never 'new', 'toload' or
\* 'calfail' (the statuses a row is dispatched or reset from), and every
\* row that was selected and waits for launch_task is still 'new' or
\* 'toload': no 'submitted' or 'running' row is selected or dispatched.
C31_OneWorkerPerRow ==
    /\ \A f \in DOMAIN files : Cardinality(WorkersOn(f)) <= 1
    /\ \A ci \in AllProcs :
          Live(ci) /\ P(ci).pc # "dead" =>
             files[P(ci).row.file_id].status \notin { "new", "toload", "calfail" }
    /\ \A c \in active : \A j \in DOMAIN sched[c].rows :
          files[sched[c].rows[j].file_id].status \in { "new", "toload" }

\* C31 witness: a row that reattempt_calibration set back from 'calfail' to
\* 'new' has been dispatched again and has its one worker.
C31_Witness ==
    \E f \in DOMAIN files :
        /\ files[f].note = "Reattempting calibration"
        /\ files[f].status = "running"
        /\ Cardinality(WorkersOn(f)) = 1

\* The workers of calibrator scans of the source of file f that have not
\* ended: each of them has reattempt_calibration still before it.
ResettersOf(f) ==
    { ci \in AllProcs :
        /\ Live(ci)
        /\ P(ci).pc # "dead"
        /\ P(ci).action = "calibrate"
        /\ P(ci).row.obstype = "cal"
        /\ StripR(P(ci).row.sourcename) = SourceName(f) }

\* C32: a 'cleaned' file that passed quality control is 'calfail' while the
\* calibrator database of its source is built ('ready') only as long as a
\* calibrator worker of the source has its reattempt_calibration still to
\* run: the reset to 'new' needs no further calibrator scan, in whatever
\* order the two workers commit.
C32_ResetAfterBuild ==
    \A f \in DOMAIN files :
        ( /\ files[f].status = "calfail"
          /\ files[f].stage = "cleaned"
          /\ files[f].qcpassed = "true"
          /\ \E k \in get_caldb(SourceName(f)) : caldbs[k].status = "ready" )
        => ResettersOf(f) # {}

\* C33: a file that is 'calfail' does not stay 'calfail': it is reset to
\* 'new', or set to 'toload' once its observation is more than 7 days old
\* and has no usable calibrator scan.
C33_LeavesCalfail ==
    \A f \in 1 .. MaxFiles :
        (f \in DOMAIN files /\ files[f].status = "calfail")
            ~> (f \in DOMAIN files /\ files[f].status # "calfail")

\* The files that are new entries for the caldbs row k (0: no row yet):
\* stage 'calibrated', observation type 'cal', status 'new', and added
\* after the row was last modified.
NewEntries(k) ==
    { f \in DOMAIN files :
        /\ files[f].stage = "calibrated"
        /\ obs[files[f].obs_id].obstype = "cal"
        /\ files[f].status = "new"
        /\ (k = 0 \/ files[f].added > caldbs[k].last_modified) }

\* The caldbs row update_caldb finds for the name it is called with.
CalledRow ==
    IF get_caldb(call'.name) = {} THEN 0
    ELSE CHOOSE k \in get_caldb(call'.name) : TRUE

\* C34: update_caldb runs the aggregation tool exactly when force is set or
\* some file is a new entry, and when a calibrator worker gets to
\* update_caldb the 'calibrated' file it has just inserted is a new entry.
C34_ToolIffNewEntries ==
    /\ [] ( \A ci \in AllProcs :
              Live(ci) /\ P(ci).pc = "caldb" =>
                 \E g \in NewEntries(P(ci).caldb) :
                     files[g].parent_file_id = P(ci).row.file_id )
    /\ [][ UpdateCaldbStep =>
             (call'.tool # "none" <=> (call'.force \/ NewEntries(CalledRow) # {})) ]_vars

\* C35: a call of update_caldb whose aggregation tool fails leaves the
\* caldbs row of the source 'failed', and a call that skips the tool leaves
\* a 'failed' row 'failed': a row is 'ready' only when the latest run of
\* the tool for its source succeeded.
C35_ReadyOnlyAfterSuccess ==
    [][ UpdateCaldbStep =>
          /\ call'.tool = "failed" =>
                \A k \in RowsAfter : caldbs'[k].status = "failed"
          /\ call'.tool = "none" =>
                \A k \in RowsBefore :
                    caldbs[k].status = "failed" => caldbs'[k].status = "failed" ]_vars

\* C36: no two caldbs rows have the same canonical source name.
C36_OneRowPerSource ==
    \A a \in DOMAIN caldbs, b \in DOMAIN caldbs :
        StripR(caldbs[a].sourcename) = StripR(caldbs[b].sourcename) => a = b

\* C36 witness: a calibrator worker that found no caldbs row is about to
\* insert one while another calibrator worker of the same source waits for
\* the lock, with its own lookup still before it.
C36_Witness ==
    \E a \in AllProcs, b \in AllProcs :
        /\ Live(a) /\ Live(b)
        /\ P(a).pc = "caldb" /\ P(a).caldb = 0
        /\ P(a).row.obstype = "cal"
        /\ P(b).pc = "wantlock"
        /\ P(b).row.obstype = "cal"
        /\ StripR(P(b).row.sourcename) = StripR(P(a).row.sourcename)
        /\ caldbs = <<>>

\* The changes of status the scheduler and the workers make.
StatusEdges ==
    { << "new", "submitted" >>, << "submitted", "running" >>,
      << "running", "processed" >>, << "running", "failed" >>,
      << "running", "calfail" >>, << "running", "toload" >>,
      << "calfail", "new" >>, << "toload", "submitted" >>,
      << "submitted", "done" >>, << "submitted", "failed" >> }

\* C37: with one coordinator every step that changes the status of a files
\* row takes it along one of the edges above; no edge leaves 'processed',
\* 'done' or 'failed'.
C37_StatusEdges ==
    [][ \A f \in DOMAIN files :
          files'[f].status # files[f].status =>
             << files[f].status, files'[f].status >> \in StatusEdges ]_vars

\* C37 witness: a row went new, submitted, running, calfail, new,
\* submitted, running, processed.
C37_Witness ==
    \E f \in DOMAIN files :
        /\ files[f].note = "Reattempting calibration"
        /\ files[f].status = "processed"

\* The step is main launching a load task for the head of the rows it
\* selected.
LoadLaunchStep(c) ==
    /\ c \in active
    /\ sched[c].pc = "launch"
    /\ CATEGORIES[sched[c].cat] = "load"
    /\ Len(inprogress'[c]) = Len(inprogress[c]) + 1

\* The step is the end of load_to_toaster in worker i of coordinator c.
LoadEndStep(c, i) ==
    /\ c \in active
    /\ i \in DOMAIN inprogress[c] /\ i \in DOMAIN inprogress'[c]
    /\ inprogress[c][i].action = "load"
    /\ inprogress[c][i].pc = "start"
    /\ inprogress'[c][i].pc = "dead"

\* C38: a load task is launched for a row that was 'toload' when it was
\* selected, of whatever stage and qcpassed; the load worker adds no files
\* row, changes no stage, and leaves its row 'done' when it returns and
\* 'failed' when it raises.
C38_LoadAction ==
    [][ \A c \in Coords :
          /\ LoadLaunchStep(c) => Head(sched[c].rows).status = "toload"
          /\ \A i \in 1 .. MaxProc :
                LoadEndStep(c, i) =>
                   /\ DOMAIN files' = DOMAIN files
                   /\ \A f \in DOMAIN files : files'[f].stage = files[f].stage
                   /\ files'[inprogress[c][i].row.file_id].status =
                         IF inprogress'[c][i].exitcode = "zero" THEN "done"
                         ELSE "failed" ]_vars

\* The processes of coordinator c that have not ended.
Unfinished(c) == { i \in DOMAIN inprogress[c] : inprogress[c][i].pc # "dead" }

\* Process i of coordinator c takes no step: its record is still in the
\* list after the step.
Stays(c, i) == \E j \in DOMAIN inprogress'[c] : inprogress'[c][j] = inprogress[c][i]

\* C39: a process that has not ended is in inprogress after every step it
\* does not take itself, and its row keeps its status; and no task of any
\* category is launched while numproc processes have not ended.
C39_NoTimeout ==
    [][ \A c \in active :
          /\ \A i \in Unfinished(c) :
                \/ /\ i \in DOMAIN inprogress'[c]
                   /\ inprogress'[c][i] # inprogress[c][i]
                   /\ Len(inprogress'[c]) = Len(inprogress[c])
                \/ /\ Stays(c, i)
                   /\ files'[inprogress[c][i].row.file_id].status =
                         files[inprogress[c][i].row.file_id].status
          /\ Cardinality(Unfinished(c)) >= numproc =>
                Len(inprogress'[c]) <= Len(inprogress[c]) ]_vars

\* C39 witness: an iteration of main's loop started with every slot taken
\* by a process that has not ended, while a row waits to be dispatched.
C39_Witness ==
    \E c \in active :
        /\ numproc > 0
        /\ sched[c].free0 = 0
        /\ Cardinality(Unfinished(c)) = numproc
        /\ get_toload \cup UNION { get_todo(a, priority) : a \in DOMAIN Actions \ {"load"} } # {}

\* C40: a process exists only for a row whose 'submitted' is committed: the
\* row of a worker that has not ended is never 'new'; the row copy a worker
\* of combine, correct, clean or calibrate holds is the one selected, with
\* status 'new', and it meets the worker's precondition, so no worker
\* launched by main ends at its status test.
C40_SubmittedBeforeStart ==
    /\ [] ( \A ci \in AllProcs :
              Live(ci) =>
                 /\ P(ci).pc # "dead" => files[P(ci).row.file_id].status # "new"
                 /\ P(ci).action # "load" =>
                       /\ P(ci).row.status = "new"
                       /\ Precondition(P(ci).action, P(ci).row) )
    /\ [][ \A c \in Coords, i \in 1 .. MaxProc : ~ BadStatusStep(c, i) ]_vars

\* C40 witness: a calibrate worker has passed its status test on a row copy
\* that says 'new' while the row in the table is 'running'.
C40_Witness ==
    \E ci \in AllProcs :
        /\ Live(ci)
        /\ P(ci).pc = "work"
        /\ P(ci).action = "calibrate"
        /\ P(ci).row.status = "new"
        /\ files[P(ci).row.file_id].status = "running"

====
